---------------------------- MODULE Spec2Model ----------------------------
(***************************************************************************)
(* The scene/prompt fallback cascade of studio_data_tools                  *)
(* (core/prompt_generator.py, driven by cli.py).                           *)
(*                                                                         *)
(* Text is modelled as Python sees it: a string is a sequence of           *)
(* one-character strings, so that strip, split, lower, the substring test  *)
(* and the template expansion are computed character by character.         *)
(* A Python call that may raise is modelled by an operator that returns a  *)
(* record [raised, val]: raised = TRUE stands for the exception leaving    *)
(* the function.                                                           *)
(***************************************************************************)
EXTENDS Integers, Sequences, FiniteSets, TLC

\* -------------------------------------------------------------------------
\* Bounds of the model
\* -------------------------------------------------------------------------

\* Largest requested scene / prompt count that is enumerated exhaustively.
MaxCount == 4

\* Longest service response, in lines, that is enumerated line by line.
MaxLines == 2

\* -------------------------------------------------------------------------
\* Python string primitives
\* -------------------------------------------------------------------------

DigitChars == {"0", "1", "2", "3", "4", "5", "6", "7", "8", "9"}

DigitSeq == <<"0", "1", "2", "3", "4", "5", "6", "7", "8", "9">>

SpaceChars == {" ", "\n", "\t", "\r"}

UpperSeq == <<"A", "B", "C", "D", "E", "F", "G", "H", "I", "J", "K", "L", "M",
              "N", "O", "P", "Q", "R", "S", "T", "U", "V", "W", "X", "Y", "Z">>

LowerSeq == <<"a", "b", "c", "d", "e", "f", "g", "h", "i", "j", "k", "l", "m",
              "n", "o", "p", "q", "r", "s", "t", "u", "v", "w", "x", "y", "z">>

\* str.lower() on one character.
LowerChar(c) ==
  IF \E i \in 1..Len(UpperSeq) : UpperSeq[i] = c
    THEN LowerSeq[CHOOSE i \in 1..Len(UpperSeq) : UpperSeq[i] = c]
    ELSE c

\* str.lower()
Lower(s) == [i \in 1..Len(s) |-> LowerChar(s[i])]

\* s[:n]
Prefix(s, n) == SubSeq(s, 1, IF n < Len(s) THEN n ELSE Len(s))

\* s[n:]
Suffix(s, n) == SubSeq(s, n + 1, Len(s))

\* s.startswith(p)
StartsWith(s, p) == Len(p) <= Len(s) /\ SubSeq(s, 1, Len(p)) = p

\* The positions at which sub occurs in s (0-based offsets).
Occurrences(sub, s) ==
  {i \in 0..(Len(s) - Len(sub)) : SubSeq(s, i + 1, i + Len(sub)) = sub}

\* sub in s
Contains(sub, s) == Occurrences(sub, s) # {}

\* s.isdigit()
IsDigit(s) == Len(s) > 0 /\ \A i \in 1..Len(s) : s[i] \in DigitChars

\* s.strip(): leading and trailing whitespace removed.
Strip(s) ==
  LET keep == {i \in 1..Len(s) : s[i] \notin SpaceChars}
  IN IF keep = {} THEN <<>>
     ELSE SubSeq(s, CHOOSE i \in keep : \A j \in keep : i <= j,
                    CHOOSE i \in keep : \A j \in keep : j <= i)

\* s.split(sep, 1)[1]: the text after the first occurrence of sep.
AfterFirst(s, sep) ==
  LET at == CHOOSE i \in Occurrences(sep, s) : \A j \in Occurrences(sep, s) : i <= j
  IN Suffix(s, at + Len(sep))

\* The concatenation of a sequence of sequences (balanced, so that long
\* texts do not need deep recursion).
RECURSIVE ConcatRange(_, _, _)
ConcatRange(ss, lo, hi) ==
  IF lo > hi THEN <<>>
  ELSE IF lo = hi THEN ss[lo]
  ELSE LET mid == (lo + hi) \div 2
       IN ConcatRange(ss, lo, mid) \o ConcatRange(ss, mid + 1, hi)

Concat(ss) == ConcatRange(ss, 1, Len(ss))

\* sep.join(ss)
Join(ss, sep) ==
  Concat([k \in 1..Len(ss) |-> IF k = 1 THEN ss[k] ELSE sep \o ss[k]])

\* The positions of character c in s[lo..hi], ascending.
RECURSIVE PositionsOf(_, _, _, _)
PositionsOf(s, c, lo, hi) ==
  IF lo > hi THEN <<>>
  ELSE IF lo = hi THEN (IF s[lo] = c THEN <<lo>> ELSE <<>>)
  ELSE LET mid == (lo + hi) \div 2
       IN PositionsOf(s, c, lo, mid) \o PositionsOf(s, c, mid + 1, hi)

\* s.split('\n'): always at least one (possibly empty) piece.
SplitLines(s) ==
  LET nl == PositionsOf(s, "\n", 1, Len(s))
      b  == <<0>> \o nl \o <<Len(s) + 1>>
  IN [k \in 1..(Len(nl) + 1) |-> SubSeq(s, b[k] + 1, b[k + 1] - 1)]

\* s.split(): the maximal runs of non-whitespace characters.
SplitWords(s) ==
  LET starts == {i \in 1..Len(s) :
                   s[i] \notin SpaceChars /\ (i = 1 \/ s[i - 1] \in SpaceChars)}
      EndOf(i) == CHOOSE j \in i..Len(s) :
                    /\ \A k \in i..j : s[k] \notin SpaceChars
                    /\ (j = Len(s) \/ s[j + 1] \in SpaceChars)
  IN {SubSeq(s, i, EndOf(i)) : i \in starts}

\* str(n) for n >= 0.
RECURSIVE IntToStr(_)
IntToStr(n) ==
  IF n < 10 THEN <<DigitSeq[n + 1]>>
  ELSE IntToStr(n \div 10) \o <<DigitSeq[(n % 10) + 1]>>

\* The elements of a sequence.
Range(s) == {s[i] : i \in 1..Len(s)}

\* F applied to the value of v, which is computed once (a local variable
\* assigned once and read several times).
Bind(v, F(_)) == CHOOSE y \in {F(x) : x \in {v}} : TRUE

\* template.format(object=object_name) for a template with one placeholder.
Format(template, object_name) == template.pre \o object_name \o template.post


\* -------------------------------------------------------------------------
\* Static data (core/prompts/general_scenes.py)
\* -------------------------------------------------------------------------

\* general_scenes.py: GENERAL_SCENES, the generic fallback pool.
GENERAL_SCENES ==
  << <<"u","r","b","a","n"," ","s","t","r","e","e","t"," ","w","i","t","h"," ","l","i","t","t","e","r">>,   \* "urban street with litter"
     <<"p","a","r","k"," ","a","r","e","a">>,   \* "park area"
     <<"k","i","t","c","h","e","n"," ","c","o","u","n","t","e","r">>,   \* "kitchen counter"
     <<"o","f","f","i","c","e"," ","d","e","s","k">>,   \* "office desk"
     <<"p","a","r","k","i","n","g"," ","l","o","t">>,   \* "parking lot"
     <<"r","i","v","e","r","s","i","d","e"," ","o","r"," ","b","e","a","c","h">>,   \* "riverside or beach"
     <<"g","r","a","s","s","y"," ","f","i","e","l","d">>,   \* "grassy field"
     <<"r","e","s","t","a","u","r","a","n","t"," ","t","a","b","l","e">>,   \* "restaurant table"
     <<"s","t","o","r","e"," ","s","h","e","l","f">>,   \* "store shelf"
     <<"b","e","d","r","o","o","m"," ","f","l","o","o","r">> >>   \* "bedroom floor"

\* general_scenes.py: DEFAULT_SCENES; each template is the text before and after its {object} placeholder.
DEFAULT_SCENES ==
  << [pre |-> <<"k","i","t","c","h","e","n"," ","c","o","u","n","t","e","r"," ","w","i","t","h"," ">>, post |-> <<>>],   \* "kitchen counter with {object}"
     [pre |-> <<"b","a","t","h","r","o","o","m"," ","c","o","r","n","e","r"," ","w","i","t","h"," ">>, post |-> <<>>],   \* "bathroom corner with {object}"
     [pre |-> <<"o","f","f","i","c","e"," ","d","e","s","k"," ","w","i","t","h"," ">>, post |-> <<>>],   \* "office desk with {object}"
     [pre |-> <<"b","e","d","r","o","o","m"," ","w","i","t","h"," ">>, post |-> <<" ","o","n"," ","n","i","g","h","t","s","t","a","n","d">>],   \* "bedroom with {object} on nightstand"
     [pre |-> <<"s","t","o","r","a","g","e"," ","r","o","o","m"," ","w","i","t","h"," ">>, post |-> <<>>],   \* "storage room with {object}"
     [pre |-> <<"a","p","a","r","t","m","e","n","t"," ","h","a","l","l","w","a","y"," ","w","i","t","h"," ">>, post |-> <<>>],   \* "apartment hallway with {object}"
     [pre |-> <<"a","t","t","i","c"," ","w","i","t","h"," ">>, post |-> <<>>],   \* "attic with {object}"
     [pre |-> <<"c","l","a","s","s","r","o","o","m"," ","w","i","t","h"," ">>, post |-> <<>>],   \* "classroom with {object}"
     [pre |-> <<"r","e","s","t","a","u","r","a","n","t"," ","b","o","o","t","h"," ","w","i","t","h"," ">>, post |-> <<>>],   \* "restaurant booth with {object}"
     [pre |-> <<"h","o","t","e","l"," ","r","o","o","m"," ","w","i","t","h"," ">>, post |-> <<>>],   \* "hotel room with {object}"
     [pre |-> <<"u","r","b","a","n"," ","s","t","r","e","e","t"," ","w","i","t","h"," ">>, post |-> <<>>],   \* "urban street with {object}"
     [pre |-> <<"p","a","r","k"," ","b","e","n","c","h"," ","w","i","t","h"," ">>, post |-> <<>>],   \* "park bench with {object}"
     [pre |-> <<"p","a","r","k","i","n","g"," ","l","o","t"," ","w","i","t","h"," ">>, post |-> <<>>],   \* "parking lot with {object}"
     [pre |-> <<"b","e","a","c","h"," ","w","i","t","h"," ">>, post |-> <<>>],   \* "beach with {object}"
     [pre |-> <<"b","a","c","k","y","a","r","d"," ","w","i","t","h"," ">>, post |-> <<>>],   \* "backyard with {object}"
     [pre |-> <<"b","u","s"," ","s","t","o","p"," ","w","i","t","h"," ">>, post |-> <<>>],   \* "bus stop with {object}"
     [pre |-> <<"a","l","l","e","y","w","a","y"," ","w","i","t","h"," ">>, post |-> <<>>],   \* "alleyway with {object}"
     [pre |-> <<"h","i","g","h","w","a","y"," ","u","n","d","e","r","p","a","s","s"," ","w","i","t","h"," ">>, post |-> <<>>] >>   \* "highway underpass with {object}"

\* general_scenes.py: ENVIRONMENT_TYPES.
ENVIRONMENT_TYPES ==
  << <<"k","i","t","c","h","e","n">>,   \* "kitchen"
     <<"b","a","t","h","r","o","o","m">>,   \* "bathroom"
     <<"o","f","f","i","c","e">>,   \* "office"
     <<"b","e","d","r","o","o","m">>,   \* "bedroom"
     <<"l","i","v","i","n","g"," ","r","o","o","m">>,   \* "living room"
     <<"h","a","l","l","w","a","y">>,   \* "hallway"
     <<"b","a","s","e","m","e","n","t">>,   \* "basement"
     <<"a","t","t","i","c">>,   \* "attic"
     <<"g","a","r","a","g","e">>,   \* "garage"
     <<"c","l","a","s","s","r","o","o","m">>,   \* "classroom"
     <<"r","e","s","t","a","u","r","a","n","t">>,   \* "restaurant"
     <<"s","t","o","r","e">>,   \* "store"
     <<"u","r","b","a","n">>,   \* "urban"
     <<"p","a","r","k">>,   \* "park"
     <<"r","o","a","d","s","i","d","e">>,   \* "roadside"
     <<"b","e","a","c","h">>,   \* "beach"
     <<"f","o","r","e","s","t">>,   \* "forest"
     <<"s","i","d","e","w","a","l","k">>,   \* "sidewalk"
     <<"b","a","c","k","y","a","r","d">>,   \* "backyard"
     <<"a","l","l","e","y">> >>   \* "alley"

\* general_scenes.py: SURFACE_TYPES.
SURFACE_TYPES ==
  << <<"t","i","l","e">>,   \* "tile"
     <<"l","i","n","o","l","e","u","m">>,   \* "linoleum"
     <<"c","a","r","p","e","t">>,   \* "carpet"
     <<"h","a","r","d","w","o","o","d">>,   \* "hardwood"
     <<"c","o","n","c","r","e","t","e">>,   \* "concrete"
     <<"c","o","u","n","t","e","r">>,   \* "counter"
     <<"t","a","b","l","e">>,   \* "table"
     <<"d","e","s","k">>,   \* "desk"
     <<"s","h","e","l","f">>,   \* "shelf"
     <<"a","s","p","h","a","l","t">>,   \* "asphalt"
     <<"g","r","a","s","s">>,   \* "grass"
     <<"s","a","n","d">>,   \* "sand"
     <<"g","r","a","v","e","l">>,   \* "gravel"
     <<"m","u","d">>,   \* "mud"
     <<"p","a","v","e","m","e","n","t">>,   \* "pavement"
     <<"d","i","r","t">>,   \* "dirt"
     <<"s","t","o","n","e">> >>   \* "stone"

\* general_scenes.py: LIGHTING_CONDITIONS.
LIGHTING_CONDITIONS ==
  << <<"d","i","m","l","y"," ","l","i","t">>,   \* "dimly lit"
     <<"b","r","i","g","h","t","l","y"," ","l","i","t">>,   \* "brightly lit"
     <<"n","a","t","u","r","a","l","l","y"," ","l","i","t">>,   \* "naturally lit"
     <<"a","r","t","i","f","i","c","i","a","l","l","y"," ","l","i","t">>,   \* "artificially lit"
     <<"s","h","a","d","o","w","y">>,   \* "shadowy"
     <<"s","u","n","l","i","t">>,   \* "sunlit"
     <<"f","l","u","o","r","e","s","c","e","n","t","-","l","i","t">>,   \* "fluorescent-lit"
     <<"e","v","e","n","i","n","g">>,   \* "evening"
     <<"m","o","r","n","i","n","g">>,   \* "morning"
     <<"n","o","o","n">>,   \* "noon"
     <<"d","u","s","k">>,   \* "dusk"
     <<"d","a","w","n">> >>   \* "dawn"

\* prompt_generator.py: the lighting variations of _create_default_dynamic_scenes.
lighting_vars ==
  << <<"u","n","d","e","r","e","x","p","o","s","e","d">>,   \* "underexposed"
     <<"o","v","e","r","e","x","p","o","s","e","d">>,   \* "overexposed"
     <<"s","h","a","d","o","w","-","f","i","l","l","e","d">>,   \* "shadow-filled"
     <<"h","a","r","s","h","l","y"," ","l","i","t">>,   \* "harshly lit"
     <<"u","n","e","v","e","n","l","y"," ","l","i","t">>,   \* "unevenly lit"
     <<"p","o","o","r","l","y"," ","l","i","t">>,   \* "poorly lit"
     <<"b","a","c","k","l","i","t">>,   \* "backlit"
     <<"s","i","d","e","-","l","i","t">> >>   \* "side-lit"

\* -------------------------------------------------------------------------
\* The scene pool (core/prompts/object_scenes.py)
\* -------------------------------------------------------------------------

\* OBJECT_SCENE_MAP, a dict from object-name keys to scene lists, in
\* insertion order.  The module that defines it is not among the sources;
\* the specification fixes that keys are case-folded object names, that
\* "empty can" is a key with 10 predefined scenes, and that a key may be a
\* substring of, or share a word with, another key.  The keys and scene
\* texts below are a pool of that shape.
OBJECT_SCENE_MAP ==
  << [key |-> <<"c","a","n">>,   \* "can"
      scenes |-> << <<"r","e","c","y","c","l","i","n","g"," ","b","i","n">>,   \* "recycling bin"
                    <<"p","a","n","t","r","y"," ","s","h","e","l","f">>,   \* "pantry shelf"
                    <<"p","i","c","n","i","c"," ","t","a","b","l","e">> >>],   \* "picnic table"
     [key |-> <<"e","m","p","t","y"," ","c","a","n">>,   \* "empty can"
      scenes |-> << <<"s","t","r","e","e","t"," ","g","u","t","t","e","r">>,   \* "street gutter"
                    <<"p","a","r","k"," ","l","a","w","n">>,   \* "park lawn"
                    <<"b","e","a","c","h"," ","s","a","n","d">>,   \* "beach sand"
                    <<"b","u","s"," ","s","t","o","p"," ","b","e","n","c","h">>,   \* "bus stop bench"
                    <<"c","a","r"," ","f","l","o","o","r"," ","m","a","t">>,   \* "car floor mat"
                    <<"o","f","f","i","c","e"," ","b","i","n">>,   \* "office bin"
                    <<"a","l","l","e","y"," ","p","u","d","d","l","e">>,   \* "alley puddle"
                    <<"r","i","v","e","r"," ","b","a","n","k">>,   \* "river bank"
                    <<"s","t","a","d","i","u","m"," ","s","e","a","t">>,   \* "stadium seat"
                    <<"g","a","r","a","g","e"," ","f","l","o","o","r">> >>],   \* "garage floor"
     [key |-> <<"p","l","a","s","t","i","c"," ","b","o","t","t","l","e">>,   \* "plastic bottle"
      scenes |-> << <<"g","y","m"," ","l","o","c","k","e","r">>,   \* "gym locker"
                    <<"b","e","a","c","h"," ","d","u","n","e">>,   \* "beach dune"
                    <<"d","e","s","k"," ","c","o","r","n","e","r">> >>],   \* "desk corner"
     [key |-> <<"g","l","a","s","s"," ","b","o","t","t","l","e">>,   \* "glass bottle"
      scenes |-> << <<"b","a","r"," ","c","o","u","n","t","e","r">>,   \* "bar counter"
                    <<"c","e","l","l","a","r"," ","r","a","c","k">>,   \* "cellar rack"
                    <<"w","i","n","d","o","w"," ","s","i","l","l">> >>] >>   \* "window sill"

\* list(OBJECT_SCENE_MAP.keys())
PoolKeys == [i \in 1..Len(OBJECT_SCENE_MAP) |-> OBJECT_SCENE_MAP[i].key]

\* key in OBJECT_SCENE_MAP (dict membership: exact, case-sensitive).
InPool(name) == \E i \in 1..Len(OBJECT_SCENE_MAP) : OBJECT_SCENE_MAP[i].key = name

\* OBJECT_SCENE_MAP[key]
PoolScenes(key) ==
  OBJECT_SCENE_MAP[CHOOSE i \in 1..Len(OBJECT_SCENE_MAP) : OBJECT_SCENE_MAP[i].key = key].scenes

\* -------------------------------------------------------------------------
\* Results of calls
\* -------------------------------------------------------------------------

\* A call that returned v.
Ok(v) == [raised |-> FALSE, val |-> v]

\* A call that an exception left.
Raised == [raised |-> TRUE, val |-> <<>>]

\* What one call to client.models.generate_content did: it raised (any
\* transport error or timeout), it returned a response whose .text is
\* None, or it returned a response with a text.
SvcRaise == [kind |-> "raise", text |-> <<>>]

SvcNone == [kind |-> "none", text |-> <<>>]

SvcText(t) == [kind |-> "text", text |-> t]

\* -------------------------------------------------------------------------
\* PromptGenerator: the synthetic generators
\* -------------------------------------------------------------------------

\* _create_fallback_scene without the object name at its end.
create_fallback_scene_anonymous(object_name, index) ==
  LIGHTING_CONDITIONS[((index * 7) % Len(LIGHTING_CONDITIONS)) + 1] \o <<" ">>
    \o ENVIRONMENT_TYPES[((index * 3) % Len(ENVIRONMENT_TYPES)) + 1]
    \o <<" ", "w", "i", "t", "h", " ">> \o SURFACE_TYPES[((index * 5) % Len(SURFACE_TYPES)) + 1]

\* _create_fallback_scene(object_name, index)
_create_fallback_scene(object_name, index) ==
  LET env_idx  == (index * 3) % Len(ENVIRONMENT_TYPES)
      cond_idx == (index * 7) % Len(LIGHTING_CONDITIONS)
      surf_idx == (index * 5) % Len(SURFACE_TYPES)
  IN LIGHTING_CONDITIONS[cond_idx + 1] \o <<" ">> \o ENVIRONMENT_TYPES[env_idx + 1]
       \o <<" ", "w", "i", "t", "h", " ">> \o SURFACE_TYPES[surf_idx + 1]
       \o <<" ", "a", "n", "d", " ">> \o object_name

\* [scene.format(object=object_name) for scene in DEFAULT_SCENES[:n]]
FormattedDefaults(object_name, n) ==
  [i \in 1..(IF n < Len(DEFAULT_SCENES) THEN n ELSE Len(DEFAULT_SCENES))
     |-> Format(DEFAULT_SCENES[i], object_name)]

\* The while loop of _create_default_dynamic_scenes.
RECURSIVE DefaultFillLoop(_, _, _)
DefaultFillLoop(result_scenes, default_scenes, num_scenes) ==
  IF Len(result_scenes) < num_scenes
    THEN LET idx        == Len(result_scenes) % Len(default_scenes)
             base_scene == default_scenes[idx + 1]
             light_var  == lighting_vars[(Len(result_scenes) % Len(lighting_vars)) + 1]
             new_scene  == light_var \o <<" ">> \o base_scene
         IN DefaultFillLoop(Append(result_scenes, new_scene), default_scenes, num_scenes)
    ELSE result_scenes

\* _create_default_dynamic_scenes(object_name, num_scenes)
_create_default_dynamic_scenes(object_name, num_scenes) ==
  LET default_scenes == FormattedDefaults(object_name, Len(DEFAULT_SCENES))
      result_scenes  == Prefix(default_scenes, num_scenes)
  IN Prefix(DefaultFillLoop(result_scenes, default_scenes, num_scenes), num_scenes)

\* -------------------------------------------------------------------------
\* PromptGenerator.generate_dynamic_scenes
\* -------------------------------------------------------------------------

\* The separators tried, in order, to strip a leading enumeration marker.
Separators == << <<".", " ">>, <<")", " ">>, <<"-", " ">>, <<":", " ">> >>

\* How many leading characters of a line are searched for a separator.
SeparatorWindow == 5

\* RemoveNumbering searching one character less for the separator.
RemoveNumberingNarrow(scene) ==
  IF Len(scene) > 2 /\ scene[1] \in DigitChars
    THEN LET found == {k \in 1..Len(Separators) :
                         Contains(Separators[k], Prefix(scene, SeparatorWindow - 1))}
         IN IF found = {} THEN scene
            ELSE Strip(AfterFirst(scene, Separators[CHOOSE k \in found : \A j \in found : k <= j]))
    ELSE scene

\* RemoveNumbering that applies the separator occurring earliest in the
\* line, whatever its place in the list of separators.
RemoveNumberingByPosition(scene) ==
  IF Len(scene) > 2 /\ scene[1] \in DigitChars
    THEN LET found == {k \in 1..Len(Separators) :
                         Contains(Separators[k], Prefix(scene, SeparatorWindow))}
             At(k) == CHOOSE i \in Occurrences(Separators[k], scene) :
                        \A j \in Occurrences(Separators[k], scene) : i <= j
         IN IF found = {} THEN scene
            ELSE Strip(AfterFirst(scene, Separators[CHOOSE k \in found :
                                                      \A j \in found : At(k) <= At(j)]))
    ELSE scene

\* The numbering removal of one stripped line (lines 169-176).
RemoveNumbering(scene) ==
  IF Len(scene) > 2 /\ scene[1] \in DigitChars
    THEN LET found == {k \in 1..Len(Separators) :
                         Contains(Separators[k], Prefix(scene, SeparatorWindow))}
         IN IF found = {} THEN scene
            ELSE Strip(AfterFirst(scene, Separators[CHOOSE k \in found : \A j \in found : k <= j]))
    ELSE scene

\* The scenes one response line contributes (none or one), lines 159-180.
LineScenes(line) ==
  LET scene == Strip(line)
  IN IF scene = <<>> \/ StartsWith(scene, <<"#">>) THEN <<>>
     ELSE IF IsDigit(scene) THEN <<>>
     ELSE LET clean_scene == RemoveNumbering(scene)
          IN IF clean_scene # <<>> THEN <<clean_scene>> ELSE <<>>

\* The parsed scene list of a response text (lines 159-180).
ParseScenes(text) ==
  LET lines == SplitLines(text)
  IN Concat([k \in 1..Len(lines) |-> LineScenes(lines[k])])

\* PadLoop with the loop left out: the parsed scenes are returned unpadded.
PadLoopSkipped(scenes, object_name, num_scenes) == scenes

\* PadLoop numbering the synthetic entries from the list's length, not from
\* the position they take.
RECURSIVE PadLoopZeroBased(_, _, _)
PadLoopZeroBased(scenes, object_name, num_scenes) ==
  IF Len(scenes) < num_scenes
    THEN PadLoopZeroBased(Append(scenes, _create_fallback_scene(object_name, Len(scenes))),
                          object_name, num_scenes)
    ELSE scenes

\* The padding loop of generate_dynamic_scenes (lines 183-184).
RECURSIVE PadLoop(_, _, _)
PadLoop(scenes, object_name, num_scenes) ==
  IF Len(scenes) < num_scenes
    THEN PadLoop(Append(scenes, _create_fallback_scene(object_name, Len(scenes) + 1)),
                 object_name, num_scenes)
    ELSE scenes

\* generate_dynamic_scenes without its except clause: a failed call leaves
\* the function as an exception.
generate_dynamic_scenes_uncaught(cl, object_name, num_scenes, svc) ==
  IF ~cl THEN Raised
  ELSE IF svc.kind = "text"
    THEN Ok(Prefix(PadLoop(ParseScenes(svc.text), object_name, num_scenes), num_scenes))
    ELSE Raised

\* generate_dynamic_scenes(object_name, num_scenes) when the service call
\* it makes does svc.  cl is TRUE when self.client is set.
generate_dynamic_scenes(cl, object_name, num_scenes, svc) ==
  IF ~cl THEN Raised
  ELSE IF svc.kind = "text"
    THEN Ok(Prefix(PadLoop(ParseScenes(svc.text), object_name, num_scenes), num_scenes))
    ELSE Ok(_create_default_dynamic_scenes(object_name, num_scenes))

\* -------------------------------------------------------------------------
\* PromptGenerator._find_matching_scenes and get_appropriate_scenes
\* -------------------------------------------------------------------------

\* SubstringScan that accepts a key only when the key is contained in the
\* name, not when the name is contained in the key.
RECURSIVE SubstringScanKeyInName(_, _)
SubstringScanKeyInName(object_name_lower, i) ==
  IF i > Len(OBJECT_SCENE_MAP) THEN 0
  ELSE IF Contains(Lower(OBJECT_SCENE_MAP[i].key), object_name_lower) THEN i
  ELSE SubstringScanKeyInName(object_name_lower, i + 1)

\* WordScan that returns the last key sharing a word with the name.
RECURSIVE WordScanLast(_, _)
WordScanLast(object_words, i) ==
  IF i > Len(OBJECT_SCENE_MAP) THEN 0
  ELSE LET later == WordScanLast(object_words, i + 1)
       IN IF later # 0 THEN later
          ELSE IF object_words \cap SplitWords(Lower(OBJECT_SCENE_MAP[i].key)) # {} THEN i
          ELSE 0

\* The loop of tier 2 from key i on (lines 105-108): the first key, in pool
\* order, that contains the name or is contained in it.
RECURSIVE SubstringScan(_, _)
SubstringScan(object_name_lower, i) ==
  IF i > Len(OBJECT_SCENE_MAP) THEN 0
  ELSE LET key_lower == Lower(OBJECT_SCENE_MAP[i].key)
       IN IF Contains(key_lower, object_name_lower) \/ Contains(object_name_lower, key_lower)
            THEN i
            ELSE SubstringScan(object_name_lower, i + 1)

\* The loop of tier 3 from key i on (lines 111-115): the first key, in pool
\* order, that shares a word with the name.
RECURSIVE WordScan(_, _)
WordScan(object_words, i) ==
  IF i > Len(OBJECT_SCENE_MAP) THEN 0
  ELSE LET key_words == SplitWords(Lower(OBJECT_SCENE_MAP[i].key))
       IN IF object_words \cap key_words # {}
            THEN i
            ELSE WordScan(object_words, i + 1)

\* FindMatch without the exact tier.
FindMatchNoExact(object_name) ==
  LET object_name_lower == Lower(object_name)
      s == SubstringScan(object_name_lower, 1)
      w == WordScan(SplitWords(object_name_lower), 1)
  IN IF s # 0 THEN [scenes |-> OBJECT_SCENE_MAP[s].scenes, tier |-> "substring"]
     ELSE IF w # 0 THEN [scenes |-> OBJECT_SCENE_MAP[w].scenes, tier |-> "word"]
     ELSE [scenes |-> <<>>, tier |-> "none"]

\* FindMatch with the word tier tried before the substring tier.
FindMatchWordFirst(object_name) ==
  LET object_name_lower == Lower(object_name)
      s == SubstringScan(object_name_lower, 1)
      w == WordScan(SplitWords(object_name_lower), 1)
  IN IF InPool(object_name_lower)
       THEN [scenes |-> PoolScenes(object_name_lower), tier |-> "exact"]
     ELSE IF w # 0 THEN [scenes |-> OBJECT_SCENE_MAP[w].scenes, tier |-> "word"]
     ELSE IF s # 0 THEN [scenes |-> OBJECT_SCENE_MAP[s].scenes, tier |-> "substring"]
     ELSE [scenes |-> <<>>, tier |-> "none"]

\* _find_matching_scenes(object_name), with the tier that returned.
FindMatch(object_name) ==
  LET object_name_lower == Lower(object_name)
  IN IF InPool(object_name_lower)
       THEN [scenes |-> PoolScenes(object_name_lower), tier |-> "exact"]
     ELSE LET s == SubstringScan(object_name_lower, 1)
          IN IF s # 0
               THEN [scenes |-> OBJECT_SCENE_MAP[s].scenes, tier |-> "substring"]
             ELSE LET w == WordScan(SplitWords(object_name_lower), 1)
                  IN IF w # 0
                       THEN [scenes |-> OBJECT_SCENE_MAP[w].scenes, tier |-> "word"]
                       ELSE [scenes |-> <<>>, tier |-> "none"]

\* _find_matching_scenes(object_name)
_find_matching_scenes(object_name) == FindMatch(object_name).scenes

\* The default num_scenes of generate_dynamic_scenes and the count infer_scene
\* and generate_simple_prompt ask for.
DefaultNumScenes == 10

\* get_appropriate_scenes returning what the matcher found, without the
\* general scenes for an empty match.
get_appropriate_scenes_unguarded(cl, object_name, use_llm, svc) ==
  IF use_llm /\ cl
    THEN Bind(generate_dynamic_scenes(cl, object_name, DefaultNumScenes, svc),
              LAMBDA dyn : IF ~dyn.raised THEN Ok(dyn.val)
                           ELSE Ok(_find_matching_scenes(object_name)))
    ELSE Ok(_find_matching_scenes(object_name))

\* get_appropriate_scenes(object_name, use_llm) when the service call it may
\* make does svc.
get_appropriate_scenes(cl, object_name, use_llm, svc) ==
  LET Predefined ==
        Bind(_find_matching_scenes(object_name),
             LAMBDA matched_scenes :
               IF matched_scenes # <<>> THEN Ok(matched_scenes) ELSE Ok(GENERAL_SCENES))
  IN IF use_llm /\ cl
       THEN Bind(generate_dynamic_scenes(cl, object_name, DefaultNumScenes, svc),
                 LAMBDA dyn : IF ~dyn.raised THEN Ok(dyn.val) ELSE Predefined)
       ELSE Predefined

\* -------------------------------------------------------------------------
\* PromptGenerator.generate_diverse_scenes
\* -------------------------------------------------------------------------

\* The scenes one response line contributes to generate_diverse_scenes
\* (lines 271-288): a kept line is appended whatever is left of it.
DiverseLineScenes(line) ==
  LET scene == Strip(line)
  IN IF scene = <<>> \/ StartsWith(scene, <<"#">>) \/ IsDigit(scene) THEN <<>>
     ELSE LET numbered == IF scene[1] \in DigitChars /\ Len(scene) > 2
                               /\ Contains(<<".">>, scene)
                            THEN Strip(AfterFirst(scene, <<".">>))
                            ELSE scene
              clean_scene == IF StartsWith(numbered, <<"-">>) \/ StartsWith(numbered, <<"*">>)
                               THEN Strip(Suffix(numbered, 1))
                               ELSE numbered
          IN <<clean_scene>>

\* [f"{scene} with {object_name}" for scene in GENERAL_SCENES]
GeneralWithObject(object_name) ==
  [i \in 1..Len(GENERAL_SCENES) |->
     GENERAL_SCENES[i] \o <<" ", "w", "i", "t", "h", " ">> \o object_name]

\* generate_diverse_scenes(object_name, num_scenes) when the service call
\* it makes does svc.
generate_diverse_scenes(cl, object_name, num_scenes, svc) ==
  IF ~cl THEN get_appropriate_scenes(cl, object_name, FALSE, svc)
  ELSE IF svc.kind = "text"
    THEN Bind(SplitLines(svc.text),
              LAMBDA lines :
                Bind(Concat([k \in 1..Len(lines) |-> DiverseLineScenes(lines[k])]),
                     LAMBDA scenes :
                       IF scenes = <<>> THEN Ok(GeneralWithObject(object_name))
                       ELSE Ok(scenes)))
    ELSE Ok(GeneralWithObject(object_name))

\* -------------------------------------------------------------------------
\* PromptGenerator.infer_scene
\* -------------------------------------------------------------------------

\* random.choice(seq): every element may be drawn; an empty seq raises.
Choice(seq) == IF seq = <<>> THEN {Raised} ELSE {Ok(x) : x \in Range(seq)}

\* s.strip(chars): leading and trailing characters of the set removed.
StripChars(s, chars) ==
  LET keep == {i \in 1..Len(s) : s[i] \notin chars}
  IN IF keep = {} THEN <<>>
     ELSE SubSeq(s, CHOOSE i \in keep : \A j \in keep : i <= j,
                    CHOOSE i \in keep : \A j \in keep : j <= i)

\* s.replace('\n', ' ')
ReplaceNewlines(s) == [i \in 1..Len(s) |-> IF s[i] = "\n" THEN " " ELSE s[i]]

\* len(s.split())
WordCount(s) ==
  Cardinality({i \in 1..Len(s) :
                 s[i] \notin SpaceChars /\ (i = 1 \/ s[i - 1] \in SpaceChars)})

\* The word-count limits of the direct scene inference (line 354).
MinSceneWords == 2

MaxSceneWords == 15

\* How many DEFAULT_SCENES the last-resort fallbacks use (lines 364, 493, 497).
DefaultSceneSlice == 10

\* The handler of infer_scene's outer except (lines 326-365): the direct
\* inference call does svc2.
InferSceneDirect(object_name, svc2) ==
  IF svc2.kind = "text"
    THEN Bind(ReplaceNewlines(StripChars(Strip(svc2.text), {"\"", "'"})),
              LAMBDA scene :
                IF WordCount(scene) < MinSceneWords \/ WordCount(scene) > MaxSceneWords
                  THEN Choice(_create_default_dynamic_scenes(object_name, DefaultNumScenes))
                  ELSE {Ok(scene)})
    ELSE Choice(FormattedDefaults(object_name, DefaultSceneSlice))

\* infer_scene(object_name, num_objects): the set of results it may return
\* when the scene-generation call does svc and the direct inference call,
\* if it is made, does svc2.
infer_scene(cl, object_name, svc, svc2) ==
  IF ~cl
    THEN Choice(get_appropriate_scenes(cl, object_name, FALSE, svc).val)
    ELSE Bind(generate_dynamic_scenes(cl, object_name, DefaultNumScenes, svc),
              LAMBDA dyn :
                IF ~dyn.raised /\ dyn.val # <<>>
                  THEN Choice(dyn.val)
                  ELSE InferSceneDirect(object_name, svc2))

\* -------------------------------------------------------------------------
\* Prompt composition
\* -------------------------------------------------------------------------

\* Python's None where a string is expected: no text is this value, since
\* every element of a text is a single character.
None == <<"None">>

\* An optional integer: <<>> is None, <<n>> is n.
NoInt == <<>>

\* A composed prompt: the template that was filled and the values it was
\* filled with (text: the service's text for the templates built around it).
\* The templates are fixed texts, so two prompts are equal exactly when
\* these records are.
Prompt(template, num_objects, object_name, scene_type, text) ==
  [template |-> template, num_objects |-> num_objects, object_name |-> object_name,
   scene_type |-> scene_type, text |-> text]

\* FALLBACK_PROMPT_TEMPLATE.format(num_objects=, object_name=, scene_type=)
FallbackPrompt(num_objects, object_name, scene_type) ==
  Prompt("FALLBACK_PROMPT_TEMPLATE", num_objects, object_name, scene_type, <<>>)

\* ENHANCED_FALLBACK_PROMPT_TEMPLATE.format(num_objects=, object_name=, scene_type=)
EnhancedPrompt(num_objects, object_name, scene_type) ==
  Prompt("ENHANCED_FALLBACK_PROMPT_TEMPLATE", num_objects, object_name, scene_type, <<>>)

\* f"Photorealistic image of {scene}. High resolution, ..." (line 550)
PhotorealisticPrompt(scene) == Prompt("Photorealistic image of", 0, <<>>, scene, <<>>)

\* The prompt built around the service's scene description (lines 711-719
\* and 798-806).
LlmPrompt(advanced, scene_desc) ==
  Prompt(IF advanced THEN "Amateur smartphone photo" ELSE "Casual amateur snapshot of",
         0, <<>>, <<>>, scene_desc)

\* response.text returned as the prompt, unprocessed (line 429); it is None
\* when the response carries no text.
RawPrompt(svc) ==
  Prompt("response.text", 0, <<>>, <<>>, IF svc.kind = "text" THEN svc.text ELSE None)

\* random.randint(a, b): every value of a..b may be drawn; an empty range
\* raises ValueError.
RandInt(a, b) == IF a > b THEN {Raised} ELSE {Ok(n) : n \in a..b}

\* -------------------------------------------------------------------------
\* PromptGenerator.generate_realistic_prompt
\* -------------------------------------------------------------------------

\* The record generate_realistic_prompt returns.
RealisticRecord(prompt, scene_type, num_objects, object_name) ==
  [prompt |-> prompt, scene |-> scene_type, object_count |-> num_objects,
   object |-> object_name]

\* generate_realistic_prompt(object_name, scene_type, num_objects,
\* min_objects, max_objects): the set of results it may return when the
\* service call does svc.
generate_realistic_prompt(cl, object_name, scene_type, num_objects, min_objects, max_objects, svc) ==
  LET draws == IF num_objects = NoInt \/ (~cl /\ num_objects = <<0>>)
                 THEN RandInt(min_objects, max_objects)
                 ELSE {Ok(num_objects[1])}
      Built(n) ==
        IF cl /\ svc.kind # "raise"
          THEN RealisticRecord(RawPrompt(svc), scene_type, n, object_name)
          ELSE RealisticRecord(FallbackPrompt(n, object_name, scene_type),
                               scene_type, n, object_name)
  IN {IF d.raised THEN Raised ELSE Ok(Built(d.val)) : d \in draws}

\* -------------------------------------------------------------------------
\* PromptGenerator.generate_simple_prompt
\* -------------------------------------------------------------------------

\* The least number of distinct scenes generate_simple_prompt accepts (line 481).
MinUniqueScenes == 3

\* The size of the extra batch the diversity check adds (line 484).
ExtraScenes == 5

\* The range of the object count generate_simple_prompt draws (line 470).
SimpleMinObjects == 1

SimpleMaxObjects == 3

\* EnsureDiverse that removes the duplicates without adding the extra batch.
EnsureDiverseNoExtra(dynamic_scenes, object_name) ==
  IF Cardinality(Range(dynamic_scenes)) < MinUniqueScenes
    THEN [extended |-> TRUE, len |-> Cardinality(Range(dynamic_scenes)),
          members |-> Range(dynamic_scenes)]
    ELSE [extended |-> FALSE, len |-> Len(dynamic_scenes), members |-> Range(dynamic_scenes)]

\* The diversity check of generate_simple_prompt (lines 481-487).  With
\* fewer than MinUniqueScenes distinct scenes the list is extended and
\* rebuilt from its set: list(set(...)) holds each distinct scene once, in
\* an order Python does not fix, so the result is recorded by its length and
\* its members; otherwise the list is left as it is.
EnsureDiverse(dynamic_scenes, object_name) ==
  IF Cardinality(Range(dynamic_scenes)) < MinUniqueScenes
    THEN Bind(Range(dynamic_scenes
                      \o _create_default_dynamic_scenes(object_name, ExtraScenes)),
              LAMBDA members :
                [extended |-> TRUE, len |-> Cardinality(members), members |-> members])
    ELSE [extended |-> FALSE, len |-> Len(dynamic_scenes), members |-> Range(dynamic_scenes)]

\* The outcome recorded when the diversity check did not run.
NoGuard == [extended |-> FALSE, len |-> 0, members |-> {}]

\* SimpleScene that asks the service for scenes whenever no scene_type is
\* given, use_llm or not.
SimpleSceneAlwaysLlm(cl, object_name, scene_type, use_llm, svc) ==
  LET defaults == {[scene |-> x, guarded |-> FALSE, guard_in |-> <<>>, guard |-> NoGuard] :
                     x \in Range(FormattedDefaults(object_name, DefaultSceneSlice))}
  IN IF scene_type # None
       THEN {[scene |-> scene_type, guarded |-> FALSE, guard_in |-> <<>>, guard |-> NoGuard]}
     ELSE Bind(generate_dynamic_scenes(cl, object_name, DefaultNumScenes, svc),
               LAMBDA dyn :
                 IF dyn.raised THEN defaults
                 ELSE {[scene |-> x, guarded |-> FALSE, guard_in |-> <<>>, guard |-> NoGuard] :
                         x \in Range(dyn.val)})

\* The scene generate_simple_prompt determines (lines 473-498): the set of
\* [scene, guarded, guard_in, guard] it may reach; guarded tells whether the
\* diversity check ran, guard_in is the list handed to it and guard its
\* outcome.
SimpleScene(cl, object_name, scene_type, use_llm, svc) ==
  LET defaults == {[scene |-> x, guarded |-> FALSE, guard_in |-> <<>>, guard |-> NoGuard] :
                     x \in Range(FormattedDefaults(object_name, DefaultSceneSlice))}
      Checked(dyn) ==
        Bind(EnsureDiverse(dyn.val, object_name),
             LAMBDA guard :
               IF guard.members = {} THEN defaults
               ELSE {[scene |-> x, guarded |-> TRUE, guard_in |-> dyn.val, guard |-> guard] :
                       x \in guard.members})
  IN IF scene_type # None
       THEN {[scene |-> scene_type, guarded |-> FALSE, guard_in |-> <<>>, guard |-> NoGuard]}
     ELSE IF ~use_llm THEN defaults
     ELSE Bind(generate_dynamic_scenes(cl, object_name, DefaultNumScenes, svc),
               LAMBDA dyn : IF dyn.raised THEN defaults ELSE Checked(dyn))

\* generate_simple_prompt(object_name, scene_type, num_objects, use_llm,
\* use_dynamic_scenes): the set of results it may return when the service
\* call does svc.  val is the returned tuple (prompt, scene, num_objects).
generate_simple_prompt(cl, object_name, scene_type, num_objects, use_llm, use_dynamic_scenes, svc) ==
  LET names  == IF object_name = None THEN Range(PoolKeys) ELSE {object_name}
      counts == IF num_objects = NoInt
                  THEN {d.val : d \in RandInt(SimpleMinObjects, SimpleMaxObjects)}
                  ELSE {num_objects[1]}
  IN UNION {{[raised |-> FALSE,
              val |-> <<EnhancedPrompt(n, o, sc.scene), sc.scene, n>>,
              guarded |-> sc.guarded, guard_in |-> sc.guard_in, guard |-> sc.guard] :
               n \in counts, sc \in SimpleScene(cl, o, scene_type, use_llm, svc)} :
            o \in names}

\* -------------------------------------------------------------------------
\* PromptGenerator.generate_simple_prompts
\* -------------------------------------------------------------------------

\* The record generate_simple_prompts builds for one scene (lines 552-556).
SimpleRecord(scene, object_type) ==
  [scene |-> scene, prompt |-> PhotorealisticPrompt(scene), object |-> object_type]

\* scenes + [scenes[i % len(scenes)] for i in range(count - len(scenes))]
CycleTo(scenes, count) ==
  [k \in 1..count |-> IF k <= Len(scenes) THEN scenes[k]
                      ELSE scenes[((k - Len(scenes) - 1) % Len(scenes)) + 1]]

\* generate_simple_prompts(object_type, count, use_dynamic_scenes) when the
\* service call it may make does svc.
generate_simple_prompts(cl, object_type, count, use_dynamic_scenes, svc) ==
  IF ~use_dynamic_scenes /\ ~InPool(object_type) THEN Raised
  ELSE LET Predefined == get_appropriate_scenes(cl, object_type, FALSE, svc).val
           Build(scenes) ==
             IF ~use_dynamic_scenes /\ count > Len(scenes) /\ scenes = <<>> THEN Raised
             ELSE Bind(Prefix(IF ~use_dynamic_scenes /\ count > Len(scenes)
                                THEN CycleTo(scenes, count) ELSE scenes, count),
                       LAMBDA selected_scenes :
                         Ok([k \in 1..Len(selected_scenes) |->
                               SimpleRecord(selected_scenes[k], object_type)]))
       IN IF use_dynamic_scenes
            THEN Bind(generate_dynamic_scenes(cl, object_type, count, svc),
                      LAMBDA dyn : Bind(IF ~dyn.raised THEN dyn.val ELSE Predefined,
                                        LAMBDA scenes : Build(scenes)))
            ELSE Bind(Predefined, LAMBDA scenes : Build(scenes))

\* -------------------------------------------------------------------------
\* PromptGenerator.generate_fully_dynamic_prompts
\* -------------------------------------------------------------------------

\* generate_fully_dynamic_prompts(object_type, count) when the
\* scene-generation call does svc and the i-th draw of random.randint(1, 3)
\* returns draws[i].
generate_fully_dynamic_prompts(cl, object_type, count, svc, draws) ==
  IF ~cl THEN Raised
  ELSE Bind(generate_dynamic_scenes(cl, object_type, count, svc),
            LAMBDA dyn :
              IF ~dyn.raised
                THEN Ok([i \in 1..Len(dyn.val) |->
                           [scene |-> dyn.val[i],
                            prompt |-> EnhancedPrompt(draws[i], object_type, dyn.val[i]),
                            object |-> object_type, object_count |-> draws[i]]])
                ELSE Ok([i \in 1..count |->
                           [scene |-> _create_fallback_scene(object_type, i - 1),
                            prompt |-> FallbackPrompt(draws[i], object_type,
                                                      _create_fallback_scene(object_type, i - 1)),
                            object |-> object_type, object_count |-> draws[i]]]))

\* -------------------------------------------------------------------------
\* PromptGenerator.generate_llm_prompts
\* -------------------------------------------------------------------------

\* The record of one item of the dynamic mode (lines 694-743): the item's
\* service call does svc.
DynamicItem(scene, object_type, obj_count, advanced, svc) ==
  IF svc.kind = "text"
    THEN [scene |-> scene, scene_description |-> Strip(svc.text),
          prompt |-> LlmPrompt(advanced, Strip(svc.text)),
          object |-> object_type, object_count |-> obj_count]
    ELSE [scene |-> scene, prompt |-> FallbackPrompt(obj_count, object_type, scene),
          object |-> object_type, object_count |-> obj_count]

\* The result of one item of the predefined mode (lines 781-820).
PredefinedItem(cl, object_type, obj_count, advanced, svc) ==
  IF svc.kind = "text"
    THEN Ok([scene |-> Strip(svc.text), prompt |-> LlmPrompt(advanced, Strip(svc.text)),
             object |-> object_type, object_count |-> obj_count])
    ELSE Bind(generate_simple_prompts(cl, object_type, 1, FALSE, svc),
              LAMBDA simple :
                IF simple.raised \/ simple.val = <<>> THEN Raised
                ELSE Ok([scene |-> simple.val[1].scene, prompt |-> simple.val[1].prompt,
                         object |-> simple.val[1].object, object_count |-> obj_count]))

\* The predefined mode of generate_llm_prompts (lines 751-822).  draws[i] is
\* the count random.randint returns for item i, item_svcs[i] what the
\* item's service call does.
PredefinedMode(cl, object_type, count, min_objects, max_objects, exact_objects, advanced, item_svcs, draws) ==
  IF exact_objects # NoInt THEN Ok(<<>>)
  ELSE IF count > 0 /\ min_objects > max_objects THEN Raised
  ELSE Bind([i \in 1..count |->
               PredefinedItem(cl, object_type, draws[i], advanced, item_svcs[i])],
            LAMBDA items :
              IF \E i \in 1..count : items[i].raised THEN Raised
              ELSE Ok([i \in 1..count |-> items[i].val]))

\* generate_llm_prompts(object_type, count, min_objects, max_objects,
\* exact_objects, advanced, use_dynamic_scenes) when the scene-generation
\* call does svc, the call of item i does item_svcs[i] and the i-th draw of
\* random.randint returns draws[i].
generate_llm_prompts(cl, object_type, count, min_objects, max_objects, exact_objects, advanced, use_dynamic_scenes, svc, item_svcs, draws) ==
  IF ~use_dynamic_scenes /\ ~InPool(object_type) /\ ~cl THEN Raised
  ELSE LET Predefined ==
             PredefinedMode(cl, object_type, count, min_objects, max_objects,
                            exact_objects, advanced, item_svcs, draws)
           Failed(dyn) ==
             \/ dyn.raised
             \/ count > 0 /\ dyn.val = <<>>
             \/ count > 0 /\ exact_objects = NoInt /\ min_objects > max_objects
           Dynamic(scenes) ==
             Ok([i \in 1..count |->
                   DynamicItem(scenes[((i - 1) % Len(scenes)) + 1], object_type,
                               IF exact_objects # NoInt THEN exact_objects[1] ELSE draws[i],
                               advanced, item_svcs[i])])
       IN IF use_dynamic_scenes \/ ~InPool(object_type)
            THEN Bind(generate_dynamic_scenes(cl, object_type, count, svc),
                      LAMBDA dyn : IF Failed(dyn) THEN Predefined ELSE Dynamic(dyn.val))
            ELSE Predefined

\* -------------------------------------------------------------------------
\* ImageGenerator.generate_and_save_images
\* -------------------------------------------------------------------------

\* s.replace(' ', '_')
ReplaceSpaces(s) == [i \in 1..Len(s) |-> IF s[i] = " " THEN "_" ELSE s[i]]

\* prompt_data.get(key, default)
Get(prompt_data, key, default) ==
  IF key \in DOMAIN prompt_data THEN prompt_data[key] ELSE default

\* The record generate_and_save_images stores for the i-th prompt once its
\* image is saved (lines 163-186).  The file name is the index and the
\* object name; the timestamp, the same for the whole batch, is left out.
ImageInfo(prompt_data, i) ==
  LET file_name == <<IntToStr(i), ReplaceSpaces(Get(prompt_data, "object", <<"o","b","j","e","c","t">>))>>
  IN [file_name |-> file_name, file_path |-> file_name,
      prompt |-> prompt_data.prompt,
      scene |-> Get(prompt_data, "scene", <<"u","n","k","n","o","w","n">>),
      object |-> Get(prompt_data, "object", <<"o","b","j","e","c","t">>),
      num_objects |-> Get(prompt_data, "object_count", 0)]

\* generate_and_save_images(prompts, output_dir, save_prompts=True):
\* images[i] tells whether generate_image returned an image for prompt i.
\* The returned list is also what json.dump writes when it is not empty.
generate_and_save_images(prompts, images) ==
  LET Info[i \in 0..Len(prompts)] ==
        IF i = 0 THEN <<>>
        ELSE IF images[i] THEN Append(Info[i - 1], ImageInfo(prompts[i], i))
        ELSE Info[i - 1]
  IN Info[Len(prompts)]

\* -------------------------------------------------------------------------
\* cli.generate_images
\* -------------------------------------------------------------------------

\* The num_objects the loop of generate_images passes on (lines 61-63).
CliNumObjects(num_objects, min_objects, max_objects) ==
  IF num_objects # NoInt THEN num_objects
  ELSE IF min_objects = max_objects THEN <<min_objects>> ELSE NoInt

\* One pass of the loop of generate_images (lines 59-107): the set of
\* results it may reach, val being the prompt_data appended.  call.svc is
\* what the scene-generation call does, call.svc2 the direct inference call
\* and call.svc3 the prompt call of generate_realistic_prompt.
CliItem(object, num_objects, min_objects, max_objects, use_llm, advanced_prompts, call) ==
  LET n == CliNumObjects(num_objects, min_objects, max_objects)
      Realistic(scene) ==
        {IF r.raised \/ r.val.scene = None THEN Raised
         ELSE Ok([r.val EXCEPT !.object = object]) :
           r \in generate_realistic_prompt(TRUE, object, scene, n, min_objects,
                                           max_objects, call.svc3)}
      Simple ==
        {Ok([prompt |-> r.val[1], scene |-> r.val[2], object_count |-> r.val[3],
             object |-> object]) :
           r \in generate_simple_prompt(TRUE, object, None, n, use_llm, TRUE, call.svc)}
  IN IF ~advanced_prompts THEN Simple
     ELSE IF ~use_llm THEN Realistic(None)
     ELSE UNION {IF sc.raised THEN {Raised} ELSE Realistic(sc.val) :
                   sc \in infer_scene(TRUE, object, call.svc, call.svc2)}

\* generate_images(args): the set of results it may return.  api_key tells
\* whether a key is configured (PromptGenerator raises ValueError without
\* one, line 54), calls[i] what the services do in pass i of the loop and
\* calls[i].image whether the image of prompt i is generated.  prompts is
\* the prompt_data_list handed to generate_and_save_images, val the list it
\* returns and saves.
generate_images(api_key, object, count, num_objects, min_objects, max_objects, use_llm, advanced_prompts, calls) ==
  IF ~api_key THEN {[raised |-> TRUE, val |-> <<>>, prompts |-> <<>>]}
  ELSE LET Items(i) == CliItem(object, num_objects, min_objects, max_objects,
                               use_llm, advanced_prompts, calls[i])
           Lists[i \in 0..count] ==
             IF i = 0 THEN {<<>>}
             ELSE {Append(l, it.val) : l \in Lists[i - 1],
                                       it \in {x \in Items(i) : ~x.raised}}
           Fails == \E i \in 1..count :
                      Lists[i - 1] # {} /\ \E x \in Items(i) : x.raised
       IN {[raised |-> FALSE,
            val |-> generate_and_save_images(l, [i \in 1..count |-> calls[i].image]),
            prompts |-> l] : l \in Lists[count]}
            \cup (IF Fails THEN {[raised |-> TRUE, val |-> <<>>, prompts |-> <<>>]} ELSE {})

\* -------------------------------------------------------------------------
\* Inputs
\* -------------------------------------------------------------------------

\* The object names passed to the operations: pool keys, keys in another
\* letter case, names that contain or share a word with a key, names that
\* match no key, and the empty name.
ObjectNames ==
  { <<"e","m","p","t","y"," ","c","a","n">>,   \* "empty can"
    <<"E","m","p","t","y"," ","C","a","n">>,   \* "Empty Can"
    <<"c","a","n">>,   \* "can"
    <<"e","m","p","t","y"," ","c","a","n","s">>,   \* "empty cans"
    <<"c","a","n"," ","o","p","e","n","e","r">>,   \* "can opener"
    <<"p","l","a","s","t","i","c"," ","b","o","t","t","l","e">>,   \* "plastic bottle"
    <<"P","l","a","s","t","i","c"," ","B","o","t","t","l","e">>,   \* "Plastic Bottle"
    <<"b","o","t","t","l","e">>,   \* "bottle"
    <<"b","o","t","t","l","e"," ","c","a","p">>,   \* "bottle cap"
    <<"g","l","a","s","s"," ","b","o","t","t","l","e">>,   \* "glass bottle"
    <<"s","p","a","t","u","l","a">>,   \* "spatula"
    <<"S","p","a","t","u","l","a">>,   \* "Spatula"
    <<>> }   \* ""

\* Response lines of every shape the parser distinguishes.
ResponseLines ==
  { <<"k","e","r","b"," ","s","i","d","e">>,   \* "kerb side"
    <<"w","e","t"," ","s","a","n","d">>,   \* "wet sand"
    <<"1","."," ","t","i","l","e","d"," ","f","l","o","o","r">>,   \* "1. tiled floor"
    <<"2",")"," ","o","l","d"," ","d","e","s","k">>,   \* "2) old desk"
    <<"3","-"," ","d","r","y"," ","m","u","d">>,   \* "3- dry mud"
    <<"4",":"," ","l","o","w"," ","s","h","e","l","f">>,   \* "4: low shelf"
    <<"-"," ","b","a","c","k"," ","y","a","r","d">>,   \* "- back yard"
    <<"*"," ","b","u","s"," ","s","t","o","p">>,   \* "* bus stop"
    <<"1","0","0","0","."," ","f","a","r"," ","l","o","t">>,   \* "1000. far lot"
    <<"s","h","e","d">>,   \* "shed"
    <<"1","2">>,   \* "12"
    <<"#"," ","l","i","s","t">>,   \* "# list"
    <<" "," ">>,   \* "  "
    <<"1",".">>,   \* "1."
    <<"7","."," ">>,   \* "7. "
    <<"5",")"," ","."," ","t","o","p"," ","b","i","n">>,   \* "5) . top bin"
    <<" "," ","6","."," ","r","e","d"," ","m","a","t"," "," ">> }   \* "  6. red mat  "

\* Every sequence over S of length 0..n.
RECURSIVE SeqsUpTo(_, _)
SeqsUpTo(S, n) ==
  IF n = 0 THEN {<<>>}
  ELSE LET shorter == SeqsUpTo(S, n - 1)
       IN shorter \cup {Append(q, x) : q \in {r \in shorter : Len(r) = n - 1}, x \in S}

\* The line shapes combined into longer responses.
CoreLines ==
  { <<"k","e","r","b"," ","s","i","d","e">>,   \* "kerb side"
    <<"1","."," ","t","i","l","e","d"," ","f","l","o","o","r">>,   \* "1. tiled floor"
    <<"#"," ","l","i","s","t">>,   \* "# list"
    <<>> }   \* ""

\* Responses: the empty text, every single line of ResponseLines, and every
\* combination of up to MaxLines lines of CoreLines.
ShortTexts ==
  {Join(ls, <<"\n">>) : ls \in SeqsUpTo(CoreLines, MaxLines)} \cup ResponseLines

\* Longest response, in lines, made of two distinct scene lines.
MaxRepeat == 11

\* Two plain scene lines, and the two synthetic scenes that pad positions 9
\* and 10 for "plastic bottle" (a service may return any text).
LinePairs ==
  { << <<"k","e","r","b"," ","s","i","d","e">>, <<"w","e","t"," ","s","a","n","d">> >>,
    << _create_fallback_scene(<<"p","l","a","s","t","i","c"," ","b","o","t","t","l","e">>, 9),
       _create_fallback_scene(<<"p","l","a","s","t","i","c"," ","b","o","t","t","l","e">>, 10) >> }

\* Responses whose lines are m copies of one scene line followed by t - m
\* copies of another, for every 2 <= t <= MaxRepeat and 1 <= m < t.
TwoLineTexts ==
  {Join([k \in 1..t[1] |-> IF k <= t[2] THEN pr[1] ELSE pr[2]], <<"\n">>) :
     t \in {x \in (2..MaxRepeat) \X (1..MaxRepeat) : x[2] < x[1]}, pr \in LinePairs}

\* The well-formed numbered response of n lines: "1. x1", "2. x2", ...
NumberedScene(i) == <<"x">> \o IntToStr(i)

NumberedText(n) ==
  Join([i \in 1..n |-> IntToStr(i) \o <<".", " ">> \o NumberedScene(i)], <<"\n">>)

\* The line counts of the numbered responses: around every change of the
\* number of digits of the last line number.
NumberedCounts == {1, 2, 9, 10, 11, 99, 100, 101, 999, 1000}

\* The object names of the calls that never consult the pool.
SceneObjects ==
  { <<"p","l","a","s","t","i","c"," ","b","o","t","t","l","e">>,   \* "plastic bottle"
    <<"e","m","p","t","y"," ","c","a","n">>,   \* "empty can"
    <<"s","p","a","t","u","l","a">>,   \* "spatula"
    <<>> }   \* ""

\* What the service may do on one call.
SvcOutcomes == {SvcRaise, SvcNone} \cup {SvcText(t) : t \in ShortTexts \cup TwoLineTexts}

\* The requested counts: every small count, the default of 10, and the
\* counts around the length of DEFAULT_SCENES, where
\* _create_default_dynamic_scenes starts to pad.
Counts ==
  (0..MaxCount) \cup {10, Len(DEFAULT_SCENES), Len(DEFAULT_SCENES) + 1,
                      Len(DEFAULT_SCENES) + Len(lighting_vars) + 1}

\* A usable three-line response.
GoodText ==
  Join(<< <<"1","."," ","t","i","l","e","d"," ","f","l","o","o","r">>,
          <<"2","."," ","o","l","d"," ","d","e","s","k">>,
          <<"3","."," ","d","r","y"," ","m","u","d">> >>, <<"\n">>)

\* The outcomes of a service call that the operations tell apart.
BasicSvc == {SvcRaise, SvcNone, SvcText(<<>>), SvcText(GoodText)}

\* The (object name, service outcome) pairs of the calls that look for one
\* scene: every name with every basic outcome, and every outcome with the
\* names that need no pool.
SceneInputs == (ObjectNames \X BasicSvc) \cup (SceneObjects \X SvcOutcomes)

\* Largest object count a caller configures.
MaxObjects == 3

\* The (min_objects, max_objects) ranges a caller configures.
ObjectRanges == {r \in (1..MaxObjects) \X (1..MaxObjects) : r[1] <= r[2]}

\* The num_objects / exact_objects a caller passes: none, or a count.
OptionalCounts == {NoInt} \cup {<<n>> : n \in 1..MaxObjects}

\* A scene description a caller passes.
GivenScene == <<"k","e","r","b"," ","s","i","d","e">>

\* What the per-item calls of generate_llm_prompts do: all the same, or
\* success and failure in turn.
ItemSvcs(count) ==
  {[i \in 1..count |-> x] : x \in {SvcRaise, SvcNone, SvcText(GivenScene)}}
    \cup {[i \in 1..count |-> IF i % 2 = 1 THEN SvcText(GivenScene) ELSE SvcRaise],
          [i \in 1..count |-> IF i % 2 = 1 THEN SvcNone ELSE SvcText(GivenScene)]}

\* What random.randint(lo, hi) returns over count calls: always lo, always
\* hi, or every value of the range in turn.
Draws(count, lo, hi) ==
  {[i \in 1..count |-> lo], [i \in 1..count |-> hi],
   [i \in 1..count |-> lo + ((i - 1) % (hi - lo + 1))]}

\* The object names generate_llm_prompts is called with.
LlmObjects ==
  { <<"e","m","p","t","y"," ","c","a","n">>,   \* "empty can"
    <<"E","m","p","t","y"," ","C","a","n">>,   \* "Empty Can"
    <<"c","a","n"," ","o","p","e","n","e","r">>,   \* "can opener"
    <<"s","p","a","t","u","l","a">> }   \* "spatula"

\* What the services do in one pass of the loop of generate_images.
CliCalls ==
  {[svc |-> s, svc2 |-> SvcRaise, svc3 |-> s3, image |-> im] :
     s \in {SvcRaise, SvcText(GoodText)}, s3 \in {SvcRaise, SvcText(GivenScene)},
     im \in BOOLEAN}

\* The command lines generate_images is run with: one image for every
\* combination of the options, and two images of the default object with
\* the count given.
CliRuns ==
  {[api_key |-> k, object |-> <<"e","m","p","t","y"," ","c","a","n">>, count |-> 1,
    num_objects |-> n, min_objects |-> r[1], max_objects |-> r[2], use_llm |-> u,
    advanced_prompts |-> a, calls |-> <<c>>] :
     k \in BOOLEAN, n \in {NoInt, <<2>>}, r \in {<<1, 2>>, <<2, 3>>, <<2, 2>>},
     u \in BOOLEAN, a \in BOOLEAN, c \in CliCalls}
  \cup
  {[api_key |-> TRUE, object |-> <<"s","p","a","t","u","l","a">>, count |-> 2,
    num_objects |-> <<MaxObjects>>, min_objects |-> 1, max_objects |-> 2, use_llm |-> FALSE,
    advanced_prompts |-> FALSE, calls |-> <<c, d>>] :
     c \in {x \in CliCalls : x.svc3 = SvcRaise /\ x.svc = SvcRaise},
     d \in {x \in CliCalls : x.svc3 = SvcRaise /\ x.svc = SvcRaise /\ x.image}}

\* Response lines that hold a marker and nothing else.
MarkerLines ==
  { <<"-">>, <<"*"," ">>, <<"1","2",".">>, <<"3","."," ","-">>, <<"1",".">> }

\* The responses generate_diverse_scenes is given: the short texts, the
\* usable one, and usable lines followed by a marker line.
DiverseTexts ==
  ShortTexts \cup {GoodText}
    \cup {Join(<<l, m>>, <<"\n">>) : l \in CoreLines, m \in MarkerLines}
    \cup MarkerLines

\* -------------------------------------------------------------------------
\* The state machine
\* -------------------------------------------------------------------------

\* client: self.client is set (TRUE after a successful construction).
\* op:     the operation whose result the caller holds ("idle": none).
\* args:   the arguments of that call and what the service did during it.
\* result: what the call returned, or that it raised.
VARIABLES client, op, args, result

vars == <<client, op, args, result>>

\* The state after PromptGenerator(api_key=...) returned: __init__ raises
\* without a key and otherwise sets self.client.
Init ==
  /\ client = TRUE
  /\ op = "idle"
  /\ args = <<>>
  /\ result = <<>>

\* A call of generate_dynamic_scenes(object_name, num_scenes).
GenerateDynamicScenes ==
  /\ op = "idle"
  /\ \E o \in SceneObjects, n \in Counts, svc \in SvcOutcomes :
       /\ args' = [object_name |-> o, num_scenes |-> n, svc |-> svc]
       /\ result' = generate_dynamic_scenes(client, o, n, svc)
  /\ op' = "generate_dynamic_scenes"
  /\ UNCHANGED client

\* A call of generate_dynamic_scenes that asks for as many scenes as the
\* well-formed numbered response holds.
GenerateDynamicScenesNumbered ==
  /\ op = "idle"
  /\ \E o \in {<<"s","p","a","t","u","l","a">>}, n \in NumberedCounts :
       /\ args' = [object_name |-> o, num_scenes |-> n, svc |-> SvcText(NumberedText(n))]
       /\ result' = generate_dynamic_scenes(client, o, n, SvcText(NumberedText(n)))
  /\ op' = "generate_dynamic_scenes"
  /\ UNCHANGED client

\* A call of _find_matching_scenes(object_name); tier records which tier
\* returned.
FindMatchingScenes ==
  /\ op = "idle"
  /\ \E o \in ObjectNames :
       /\ args' = [object_name |-> o]
       /\ result' = [raised |-> FALSE, val |-> _find_matching_scenes(o),
                     tier |-> FindMatch(o).tier]
  /\ op' = "_find_matching_scenes"
  /\ UNCHANGED client

\* A call of get_appropriate_scenes(object_name, use_llm).
GetAppropriateScenes ==
  /\ op = "idle"
  /\ \E o \in ObjectNames, use_llm \in BOOLEAN, svc \in BasicSvc :
       /\ args' = [object_name |-> o, use_llm |-> use_llm, svc |-> svc]
       /\ result' = get_appropriate_scenes(client, o, use_llm, svc)
  /\ op' = "get_appropriate_scenes"
  /\ UNCHANGED client

\* A call of generate_diverse_scenes(object_name, num_scenes).
GenerateDiverseScenes ==
  /\ op = "idle"
  /\ \E o \in SceneObjects, n \in {MinUniqueScenes, DefaultNumScenes},
        svc \in {SvcRaise, SvcNone} \cup {SvcText(t) : t \in DiverseTexts} :
       /\ args' = [object_name |-> o, num_scenes |-> n, svc |-> svc]
       /\ result' = generate_diverse_scenes(client, o, n, svc)
  /\ op' = "generate_diverse_scenes"
  /\ UNCHANGED client

\* A call of infer_scene(object_name).
InferScene ==
  /\ op = "idle"
  /\ \E in \in SceneInputs, svc2 \in {SvcRaise, SvcText(GivenScene)} :
       /\ args' = [object_name |-> in[1], svc |-> in[2], svc2 |-> svc2]
       /\ result' \in infer_scene(client, in[1], in[2], svc2)
  /\ op' = "infer_scene"
  /\ UNCHANGED client

\* A call of generate_realistic_prompt(object_name, scene_type, num_objects,
\* min_objects, max_objects).
GenerateRealisticPrompt ==
  /\ op = "idle"
  /\ \E o \in SceneObjects, scene_type \in {None, GivenScene}, num_objects \in OptionalCounts,
        r \in ObjectRanges, svc \in BasicSvc :
       /\ args' = [object_name |-> o, scene_type |-> scene_type, num_objects |-> num_objects,
                   min_objects |-> r[1], max_objects |-> r[2], svc |-> svc]
       /\ result' \in generate_realistic_prompt(client, o, scene_type, num_objects,
                                                r[1], r[2], svc)
  /\ op' = "generate_realistic_prompt"
  /\ UNCHANGED client

\* A call of generate_simple_prompt(object_name, scene_type, num_objects,
\* use_llm, use_dynamic_scenes) for every combination of its arguments.
GenerateSimplePrompt ==
  /\ op = "idle"
  /\ \E o \in SceneObjects \cup {None}, scene_type \in {None, GivenScene},
        num_objects \in {NoInt, <<2>>}, use_llm \in BOOLEAN, svc \in BasicSvc :
       /\ args' = [object_name |-> o, scene_type |-> scene_type, num_objects |-> num_objects,
                   use_llm |-> use_llm, use_dynamic_scenes |-> TRUE, svc |-> svc]
       /\ result' \in generate_simple_prompt(client, o, scene_type, num_objects, use_llm,
                                             TRUE, svc)
  /\ op' = "generate_simple_prompt"
  /\ UNCHANGED client

\* A call of generate_simple_prompt that has the scene inferred, for every
\* outcome of the service.
GenerateSimplePromptInferred ==
  /\ op = "idle"
  /\ \E in \in SceneInputs :
       /\ args' = [object_name |-> in[1], scene_type |-> None, num_objects |-> <<2>>,
                   use_llm |-> TRUE, use_dynamic_scenes |-> TRUE, svc |-> in[2]]
       /\ result' \in generate_simple_prompt(client, in[1], None, <<2>>, TRUE, TRUE, in[2])
  /\ op' = "generate_simple_prompt"
  /\ UNCHANGED client

\* A call of generate_simple_prompts(object_type, count, use_dynamic_scenes).
GenerateSimplePrompts ==
  /\ op = "idle"
  /\ \E o \in ObjectNames, count \in Counts, use_dynamic_scenes \in BOOLEAN, svc \in BasicSvc :
       /\ args' = [object_type |-> o, count |-> count,
                   use_dynamic_scenes |-> use_dynamic_scenes, svc |-> svc]
       /\ result' = generate_simple_prompts(client, o, count, use_dynamic_scenes, svc)
  /\ op' = "generate_simple_prompts"
  /\ UNCHANGED client

\* A call of generate_fully_dynamic_prompts(object_type, count).
GenerateFullyDynamicPrompts ==
  /\ op = "idle"
  /\ \E o \in SceneObjects, count \in 0..MaxCount, svc \in BasicSvc :
       \E draws \in Draws(count, SimpleMinObjects, SimpleMaxObjects) :
         /\ args' = [object_type |-> o, count |-> count, svc |-> svc, draws |-> draws]
         /\ result' = generate_fully_dynamic_prompts(client, o, count, svc, draws)
  /\ op' = "generate_fully_dynamic_prompts"
  /\ UNCHANGED client

\* A call of generate_llm_prompts(object_type, count, min_objects,
\* max_objects, exact_objects, advanced, use_dynamic_scenes).
GenerateLlmPrompts ==
  /\ op = "idle"
  /\ \E o \in LlmObjects, count \in 0..MaxCount, r \in {<<1, MaxObjects>>, <<2, 2>>},
        exact_objects \in {NoInt, <<2>>}, advanced \in BOOLEAN,
        use_dynamic_scenes \in BOOLEAN, svc \in {SvcRaise, SvcText(<<>>), SvcText(GoodText)} :
       \E item_svcs \in ItemSvcs(count),
          draws \in IF exact_objects = NoInt THEN Draws(count, r[1], r[2])
                    ELSE {[i \in 1..count |-> exact_objects[1]]} :
         /\ args' = [object_type |-> o, count |-> count, min_objects |-> r[1],
                     max_objects |-> r[2], exact_objects |-> exact_objects,
                     advanced |-> advanced, use_dynamic_scenes |-> use_dynamic_scenes,
                     svc |-> svc, item_svcs |-> item_svcs, draws |-> draws]
         /\ result' = generate_llm_prompts(client, o, count, r[1], r[2], exact_objects,
                                           advanced, use_dynamic_scenes, svc, item_svcs, draws)
  /\ op' = "generate_llm_prompts"
  /\ UNCHANGED client

\* A run of the command generate (cli.generate_images).
GenerateImages ==
  /\ op = "idle"
  /\ \E run \in CliRuns :
       /\ args' = run
       /\ result' \in generate_images(run.api_key, run.object, run.count, run.num_objects,
                                      run.min_objects, run.max_objects, run.use_llm,
                                      run.advanced_prompts, run.calls)
  /\ op' = "generate_images"
  /\ UNCHANGED client

\* The caller takes the result; the generator is ready for the next call.
Return ==
  /\ op # "idle"
  /\ op' = "idle"
  /\ args' = <<>>
  /\ result' = <<>>
  /\ UNCHANGED client

Next ==
  \/ FindMatchingScenes
  \/ GetAppropriateScenes
  \/ GenerateDynamicScenes
  \/ GenerateDynamicScenesNumbered
  \/ GenerateDiverseScenes
  \/ InferScene
  \/ GenerateRealisticPrompt
  \/ GenerateSimplePrompt
  \/ GenerateSimplePromptInferred
  \/ GenerateSimplePrompts
  \/ GenerateFullyDynamicPrompts
  \/ GenerateLlmPrompts
  \/ GenerateImages
  \/ Return

Spec == Init /\ [][Next]_vars

\* -------------------------------------------------------------------------
\* The padding loops, one iteration per step
\* -------------------------------------------------------------------------

\* The loop body of line 184 with the append lost.
PadAppendLost(scenes, object_name) == scenes

\* scenes.append(self._create_fallback_scene(object_name, len(scenes) + 1))
PadAppend(scenes, object_name) ==
  Append(scenes, _create_fallback_scene(object_name, Len(scenes) + 1))

\* The body of the while loop of _create_default_dynamic_scenes (lines
\* 202-212).
FillAppend(result_scenes, default_scenes) ==
  LET idx        == Len(result_scenes) % Len(default_scenes)
      base_scene == default_scenes[idx + 1]
      light_var  == lighting_vars[(Len(result_scenes) % Len(lighting_vars)) + 1]
  IN Append(result_scenes, light_var \o <<" ">> \o base_scene)

\* The responses the padded calls are given.
PadTexts == {<<>>, GoodText} \cup {Join(p, <<"\n">>) : p \in LinePairs}

\* generate_dynamic_scenes(object_name, num_scenes) reaches its while loop
\* (line 183) with the scenes parsed from the response.
PadStart ==
  /\ op = "idle"
  /\ \E o \in SceneObjects, n \in Counts, t \in PadTexts :
       /\ args' = [object_name |-> o, num_scenes |-> n, svc |-> SvcText(t)]
       /\ result' = [scenes |-> ParseScenes(t)]
  /\ op' = "pad_loop"
  /\ UNCHANGED client

\* One iteration of the while loop of generate_dynamic_scenes.
PadStep ==
  /\ op = "pad_loop"
  /\ Len(result.scenes) < args.num_scenes
  /\ result' = [scenes |-> PadAppend(result.scenes, args.object_name)]
  /\ UNCHANGED <<client, op, args>>

\* The loop condition fails: return scenes[:num_scenes] (line 186).
PadDone ==
  /\ op = "pad_loop"
  /\ ~(Len(result.scenes) < args.num_scenes)
  /\ result' = Ok(Prefix(result.scenes, args.num_scenes))
  /\ op' = "generate_dynamic_scenes"
  /\ UNCHANGED <<client, args>>

\* _create_default_dynamic_scenes(object_name, num_scenes) reaches its while
\* loop (line 202) with the leading default scenes.
FillStart ==
  /\ op = "idle"
  /\ \E o \in SceneObjects, n \in Counts :
       /\ args' = [object_name |-> o, num_scenes |-> n]
       /\ result' = [scenes |-> Prefix(FormattedDefaults(o, Len(DEFAULT_SCENES)), n)]
  /\ op' = "fill_loop"
  /\ UNCHANGED client

\* One iteration of the while loop of _create_default_dynamic_scenes.
FillStep ==
  /\ op = "fill_loop"
  /\ Len(result.scenes) < args.num_scenes
  /\ result' = [scenes |-> FillAppend(result.scenes,
                                      FormattedDefaults(args.object_name, Len(DEFAULT_SCENES)))]
  /\ UNCHANGED <<client, op, args>>

\* The loop condition fails: return result_scenes[:num_scenes] (line 214).
FillDone ==
  /\ op = "fill_loop"
  /\ ~(Len(result.scenes) < args.num_scenes)
  /\ result' = Ok(Prefix(result.scenes, args.num_scenes))
  /\ op' = "_create_default_dynamic_scenes"
  /\ UNCHANGED <<client, args>>

\* The caller takes the result of a finished call.
ReturnLoops ==
  /\ op \in {"generate_dynamic_scenes", "_create_default_dynamic_scenes"}
  /\ op' = "idle"
  /\ args' = <<>>
  /\ result' = <<>>
  /\ UNCHANGED client

NextLoops ==
  \/ PadStart
  \/ PadStep
  \/ PadDone
  \/ FillStart
  \/ FillStep
  \/ FillDone
  \/ ReturnLoops

\* The program is single-threaded and synchronous: a loop that can take its
\* next iteration, or leave, does so.  Nothing obliges the caller to start
\* a call.
SpecLoops ==
  /\ Init
  /\ [][NextLoops]_vars
  /\ WF_vars(PadStep) /\ WF_vars(PadDone)
  /\ WF_vars(FillStep) /\ WF_vars(FillDone)

\* -------------------------------------------------------------------------
\* Properties
\* -------------------------------------------------------------------------

Max(a, b) == IF a > b THEN a ELSE b

\* The scene lines of the response of the recorded call.
ParsedOfCall == IF args.svc.kind = "text" THEN ParseScenes(args.svc.text) ELSE <<>>

\* C1: generate_dynamic_scenes(object, N) returns a list of exactly N
\* entries, whether the service raises, returns no text, an empty text, fewer
\* than N scene lines or more than N.
C1_ExactlyN ==
  op = "generate_dynamic_scenes" =>
    /\ ~result.raised
    /\ Len(result.val) = args.num_scenes

\* A response with fewer scene lines than were asked for, answered with N
\* entries of which the last is a synthetic one.
C1_Witness ==
  /\ op = "generate_dynamic_scenes"
  /\ args.svc.kind = "text"
  /\ Len(ParsedOfCall) > 0
  /\ Len(ParsedOfCall) < args.num_scenes
  /\ Len(result.val) = args.num_scenes
  /\ result.val[1] = ParsedOfCall[1]
  /\ result.val[args.num_scenes] = _create_fallback_scene(args.object_name, args.num_scenes)

\* The operations of the cascade.
CascadeOps ==
  {"infer_scene", "generate_dynamic_scenes", "generate_realistic_prompt",
   "generate_simple_prompt", "generate_llm_prompts"}

\* C2: whatever the service does (raises, returns no text, an empty text or
\* a malformed one), infer_scene, generate_dynamic_scenes,
\* generate_realistic_prompt, generate_simple_prompt and generate_llm_prompts
\* return a result and raise nothing.
C2_NeverRaises == op \in CascadeOps => ~result.raised

\* generate_llm_prompts returned its records although the scene call and
\* every item call raised.
C2_Witness ==
  /\ op = "generate_llm_prompts"
  /\ args.count > 1
  /\ args.svc.kind = "raise"
  /\ \A i \in 1..args.count : args.item_svcs[i].kind = "raise"
  /\ args.exact_objects = NoInt
  /\ ~result.raised
  /\ Len(result.val) = args.count

\* C3: with every service call failing and an object name that
\* matches a pool key, infer_scene returns one of the scenes the pool holds
\* for that key, and does not raise.
C3_FromPool ==
  (/\ op = "infer_scene"
   /\ args.svc.kind = "raise"
   /\ args.svc2.kind = "raise"
   /\ FindMatch(args.object_name).tier # "none") =>
    /\ ~result.raised
    /\ result.val \in Range(_find_matching_scenes(args.object_name))

\* C4: for an object name that no tier of the matcher resolves, when the
\* service returns the empty string, infer_scene returns a non-empty
\* synthetic scene (a lighting, an environment and a surface of the tables,
\* then the object name) that contains the object name.
C4_SyntheticScene ==
  (/\ op = "infer_scene"
   /\ FindMatch(args.object_name).tier = "none"
   /\ args.svc = SvcText(<<>>)) =>
    /\ ~result.raised
    /\ result.val # <<>>
    /\ Contains(args.object_name, result.val)
    /\ \E l \in Range(LIGHTING_CONDITIONS), e \in Range(ENVIRONMENT_TYPES),
          f \in Range(SURFACE_TYPES) :
         result.val = l \o <<" ">> \o e \o <<" ","w","i","t","h"," ">> \o f
                        \o <<" ","a","n","d"," ">> \o args.object_name

\* "spatula" with an empty response: a synthetic scene that holds "spatula".
C4_Witness ==
  /\ op = "infer_scene"
  /\ args.object_name = <<"s","p","a","t","u","l","a">>
  /\ args.svc = SvcText(<<>>)
  /\ ~result.raised
  /\ Contains(<<"s","p","a","t","u","l","a">>, result.val)

\* C5 as claimed: when the list handed to the diversity check has fewer
\* than 3 distinct entries, the list it leaves has at least 3 distinct
\* entries and is at least max(input length, 3) long.
C5_GuardKeepsLength ==
  (/\ op = "generate_simple_prompt"
   /\ result.guarded
   /\ Cardinality(Range(result.guard_in)) < MinUniqueScenes) =>
    /\ Cardinality(result.guard.members) >= MinUniqueScenes
    /\ result.guard.len >= Max(Len(result.guard_in), MinUniqueScenes)

\* C5 as amended: when the list handed to the diversity check has fewer
\* than 3 distinct entries, the list it leaves has at least 3 distinct
\* entries and is at least 3 long; it holds every distinct scene once, so it
\* may be shorter than the input.
C5_GuardDistinct ==
  (/\ op = "generate_simple_prompt"
   /\ result.guarded
   /\ Cardinality(Range(result.guard_in)) < MinUniqueScenes) =>
    /\ result.guard.extended
    /\ Cardinality(result.guard.members) >= MinUniqueScenes
    /\ result.guard.len >= MinUniqueScenes
    /\ result.guard.len = Cardinality(result.guard.members)
    /\ Range(result.guard_in) \subseteq result.guard.members

\* Ten scenes of one value go in, fewer than ten distinct scenes come out.
C5_Witness ==
  /\ op = "generate_simple_prompt"
  /\ result.guarded
  /\ Len(result.guard_in) = DefaultNumScenes
  /\ Cardinality(Range(result.guard_in)) = 1
  /\ result.guard.len >= MinUniqueScenes
  /\ result.guard.len < Len(result.guard_in)

\* The response of the recorded call holds exactly two distinct scene lines.
TwoDistinctLines == Cardinality(Range(ParsedOfCall)) = 2

\* C6: for a requested count of 10 and a response with only 2
\* distinct scene lines, in any multiplicity, generate_dynamic_scenes
\* returns 10 entries with at least 3 distinct values.
C6_ThreeDistinct ==
  (/\ op = "generate_dynamic_scenes"
   /\ args.num_scenes = DefaultNumScenes
   /\ args.svc.kind = "text"
   /\ TwoDistinctLines) =>
    /\ Len(result.val) = DefaultNumScenes
    /\ Cardinality(Range(result.val)) >= MinUniqueScenes

\* The recorded call asked for as many scenes as its response, the
\* well-formed numbered text, has lines.
NumberedCall ==
  /\ op = "generate_dynamic_scenes"
  /\ args.num_scenes \in NumberedCounts
  /\ args.svc = SvcText(NumberedText(args.num_scenes))

\* The largest line number whose two-character separator lies within the
\* searched prefix: it has SeparatorWindow - 2 digits.
MaxStrippedNumber == 10 ^ (SeparatorWindow - 2) - 1

\* C7 as claimed: a response of N well-formed numbered lines "1. X1",
\* "2. X2", ..., for any N, parses to exactly X1..XN in line order.
C7_NumberedAnyLength ==
  NumberedCall =>
    result.val = [i \in 1..args.num_scenes |-> NumberedScene(i)]

\* C7 as amended: a response of N well-formed numbered lines parses to
\* exactly X1..XN in line order when N is at most 999; a line with a number
\* of four or more digits is kept with its numbering.
C7_NumberedUpTo999 ==
  NumberedCall =>
    /\ Len(result.val) = args.num_scenes
    /\ \A i \in 1..args.num_scenes :
         result.val[i] = IF i <= MaxStrippedNumber
                           THEN NumberedScene(i)
                           ELSE IntToStr(i) \o <<".", " ">> \o NumberedScene(i)

\* 999 numbered lines parsed to x1..x999, the three-digit numbers included.
C7_Witness ==
  /\ NumberedCall
  /\ args.num_scenes = MaxStrippedNumber
  /\ result.val[100] = <<"x","1","0","0">>
  /\ result.val[MaxStrippedNumber] = <<"x","9","9","9">>

\* C8: matching the exact string of a pool key returns the scene list of
\* that key, unchanged and in its order, also when another key is a
\* substring of it or shares a word with it.
C8_ExactKey ==
  (op = "_find_matching_scenes" /\ args.object_name \in Range(PoolKeys)) =>
    \A i \in 1..Len(OBJECT_SCENE_MAP) :
      OBJECT_SCENE_MAP[i].key = args.object_name =>
        result.val = OBJECT_SCENE_MAP[i].scenes

\* "empty can", of which the earlier key "can" is a substring, resolved to
\* its own 10 scenes.
C8_Witness ==
  /\ op = "_find_matching_scenes"
  /\ args.object_name = <<"e","m","p","t","y"," ","c","a","n">>
  /\ Len(result.val) = 10
  /\ \E i \in 1..Len(OBJECT_SCENE_MAP) :
       /\ OBJECT_SCENE_MAP[i].key # args.object_name
       /\ Contains(OBJECT_SCENE_MAP[i].key, args.object_name)
       /\ OBJECT_SCENE_MAP[i].scenes # result.val

\* The keys each tier accepts for a name, by position in the pool.
ExactKeys(name) ==
  {i \in 1..Len(OBJECT_SCENE_MAP) : OBJECT_SCENE_MAP[i].key = Lower(name)}

SubstringKeys(name) ==
  {i \in 1..Len(OBJECT_SCENE_MAP) :
     \/ Contains(Lower(OBJECT_SCENE_MAP[i].key), Lower(name))
     \/ Contains(Lower(name), Lower(OBJECT_SCENE_MAP[i].key))}

WordKeys(name) ==
  {i \in 1..Len(OBJECT_SCENE_MAP) :
     SplitWords(Lower(name)) \cap SplitWords(Lower(OBJECT_SCENE_MAP[i].key)) # {}}

First(S) == CHOOSE i \in S : \A j \in S : i <= j

\* C9: for every object name, the empty one included, the matcher's answer
\* is that of the first of the tiers exact, substring, word overlap that
\* accepts a key; a later tier answers only when every earlier tier accepted
\* none, and with no tier accepting the answer is empty.
C9_TierOrder ==
  op = "_find_matching_scenes" =>
    LET name == args.object_name
    IN /\ result.tier = "exact" <=> ExactKeys(name) # {}
       /\ result.tier = "substring" <=> (ExactKeys(name) = {} /\ SubstringKeys(name) # {})
       /\ result.tier = "word" <=>
            (ExactKeys(name) = {} /\ SubstringKeys(name) = {} /\ WordKeys(name) # {})
       /\ result.tier = "exact" => result.val = OBJECT_SCENE_MAP[First(ExactKeys(name))].scenes
       /\ result.tier = "substring" =>
            result.val = OBJECT_SCENE_MAP[First(SubstringKeys(name))].scenes
       /\ result.tier = "word" => result.val = OBJECT_SCENE_MAP[First(WordKeys(name))].scenes
       /\ result.tier = "none" => result.val = <<>>
       /\ result.val = <<>> => result.tier = "none"

\* A name that the substring tier resolves to one key although the word
\* tier, had it been asked, would have answered with another.
C9_Witness ==
  /\ op = "_find_matching_scenes"
  /\ result.tier = "substring"
  /\ WordKeys(args.object_name) # {}
  /\ First(WordKeys(args.object_name)) # First(SubstringKeys(args.object_name))
  /\ result.val = OBJECT_SCENE_MAP[First(SubstringKeys(args.object_name))].scenes

\* The names of the model that differ from name at most in letter case.
SameButCase(name) == {o \in ObjectNames : Lower(o) = Lower(name)}

\* C10: two object names that differ only in letter case are treated alike
\* by every operation that resolves the name against the pool: the matcher
\* returns the same scenes, generate_simple_prompts accepts or rejects both,
\* and generate_llm_prompts accepts or rejects both and takes its scenes the
\* same way for both.
C10_CaseInsensitive ==
  /\ op = "_find_matching_scenes" =>
       \A o \in SameButCase(args.object_name) : _find_matching_scenes(o) = result.val
  /\ op = "generate_simple_prompts" =>
       \A o \in SameButCase(args.object_type) :
         generate_simple_prompts(client, o, args.count, args.use_dynamic_scenes,
                                 args.svc).raised = result.raised
  /\ op = "generate_llm_prompts" =>
       \A o \in SameButCase(args.object_type) :
         LET other == generate_llm_prompts(client, o, args.count, args.min_objects,
                                           args.max_objects, args.exact_objects,
                                           args.advanced, args.use_dynamic_scenes,
                                           args.svc, args.item_svcs, args.draws)
         IN /\ other.raised = result.raised
            /\ Len(other.val) = Len(result.val)
            /\ \A i \in 1..Len(result.val) : other.val[i].scene = result.val[i].scene

\* No tier of the matcher accepts a key for the name.
NoTierMatches(name) ==
  ExactKeys(name) = {} /\ SubstringKeys(name) = {} /\ WordKeys(name) = {}

\* C11: when no tier accepts a key the matcher returns the empty list, and
\* get_appropriate_scenes without LLM then returns GENERAL_SCENES;
\* get_appropriate_scenes never returns an empty list, with or without LLM
\* and whatever the service does.
C11_NeverEmpty ==
  /\ (op = "_find_matching_scenes" /\ NoTierMatches(args.object_name)) =>
       result.val = <<>>
  /\ op = "get_appropriate_scenes" =>
       /\ ~result.raised
       /\ result.val # <<>>
       /\ (~args.use_llm /\ NoTierMatches(args.object_name)) =>
            result.val = GENERAL_SCENES

\* "spatula", which no tier resolves, answered with the general scenes.
C11_Witness ==
  /\ op = "get_appropriate_scenes"
  /\ ~args.use_llm
  /\ args.object_name = <<"s","p","a","t","u","l","a">>
  /\ NoTierMatches(args.object_name)
  /\ result.val = GENERAL_SCENES
  /\ Len(result.val) > 0

\* C14: when the caller supplies no object count, the count of every record
\* lies in min_objects..max_objects, for generate_realistic_prompt, for
\* generate_llm_prompts and for the records generate_images builds.
C14_DrawnInRange ==
  /\ (op = "generate_realistic_prompt" /\ ~result.raised /\ args.num_objects = NoInt) =>
       result.val.object_count \in args.min_objects..args.max_objects
  /\ (op = "generate_llm_prompts" /\ ~result.raised /\ args.exact_objects = NoInt) =>
       \A i \in 1..Len(result.val) :
         result.val[i].object_count \in args.min_objects..args.max_objects
  /\ (op = "generate_images" /\ ~result.raised /\ args.num_objects = NoInt) =>
       \A i \in 1..Len(result.prompts) :
         result.prompts[i].object_count \in args.min_objects..args.max_objects

\* C13: every prompt record of an operation that is given max_objects has
\* an object_count in 1..max_objects, whether the count was supplied
\* (num_objects, exact_objects) or drawn.
C13_CountWithinMax ==
  /\ (op = "generate_realistic_prompt" /\ ~result.raised) =>
       result.val.object_count \in 1..args.max_objects
  /\ (op = "generate_llm_prompts" /\ ~result.raised) =>
       \A i \in 1..Len(result.val) :
         result.val[i].object_count \in 1..args.max_objects
  /\ (op = "generate_images" /\ ~result.raised) =>
       \A i \in 1..Len(result.prompts) :
         result.prompts[i].object_count \in 1..args.max_objects

\* C15: every scene emitted by generate_dynamic_scenes,
\* generate_diverse_scenes, infer_scene and generate_simple_prompt is
\* non-empty after trimming; a response line that is empty once its marker is
\* stripped is discarded.
C15_ScenesNonEmpty ==
  /\ (op \in {"generate_dynamic_scenes", "generate_diverse_scenes"} /\ ~result.raised) =>
       \A i \in 1..Len(result.val) : Strip(result.val[i]) # <<>>
  /\ (op = "infer_scene" /\ ~result.raised) => Strip(result.val) # <<>>
  /\ (op = "generate_simple_prompt" /\ ~result.raised) => Strip(result.val[2]) # <<>>

\* C16: for the same object and count, generate_dynamic_scenes returns the
\* same list when the service call raises or carries no text as when it
\* returns an empty text, which holds no scene line.
C16_FailuresAlike ==
  (op = "generate_dynamic_scenes" /\ args.svc.kind # "text") =>
    result = generate_dynamic_scenes(client, args.object_name, args.num_scenes,
                                     SvcText(<<>>))

\* C17: infer_scene never returns a scene line of the service's response
\* that has fewer than MinSceneWords or more than MaxSceneWords words.
C17_WordCountChecked ==
  (op = "infer_scene" /\ ~result.raised /\ result.val \in Range(ParsedOfCall)) =>
    WordCount(result.val) \in MinSceneWords..MaxSceneWords

\* The field names of a prompt record.
RecordFields == {"object", "scene", "prompt", "object_count"}

\* C18: every record returned by generate_realistic_prompt,
\* generate_simple_prompts, generate_fully_dynamic_prompts and
\* generate_llm_prompts has the fields object, scene, prompt and
\* object_count, and the records generate_and_save_images writes have the
\* same four field names.
C18_RecordFields ==
  /\ (op = "generate_realistic_prompt" /\ ~result.raised) =>
       RecordFields \subseteq DOMAIN result.val
  /\ (op \in {"generate_simple_prompts", "generate_fully_dynamic_prompts",
              "generate_llm_prompts"} /\ ~result.raised) =>
       \A i \in 1..Len(result.val) : RecordFields \subseteq DOMAIN result.val[i]
  /\ (op = "generate_images" /\ ~result.raised) =>
       \A i \in 1..Len(result.val) : RecordFields \subseteq DOMAIN result.val[i]

\* The object name of the recorded call.
ArgObject ==
  IF "object_name" \in DOMAIN args THEN args.object_name
  ELSE IF "object_type" \in DOMAIN args THEN args.object_type
  ELSE args.object

\* C19: an operation raises only for a configuration error: no credential
\* at construction, or an object that no tier of the matcher resolves while
\* no text service is available.
C19_OnlyConfigurationErrors ==
  (op # "idle" /\ result.raised) =>
    \/ op = "generate_images" /\ ~args.api_key
    \/ ArgObject # None /\ NoTierMatches(ArgObject) /\ ~client

\* C20: the padding loops of generate_dynamic_scenes and
\* _create_default_dynamic_scenes finish for every object name and every
\* requested count: a call that has entered its loop eventually returns, and
\* it returns a list, not an exception.
C20_LoopsTerminate ==
  /\ (op = "pad_loop") ~> (op = "generate_dynamic_scenes" /\ ~result.raised)
  /\ (op = "fill_loop") ~> (op = "_create_default_dynamic_scenes" /\ ~result.raised)

\* A call that asked for more scenes than the response held has returned
\* after at least one iteration of its loop.
C20_Witness ==
  /\ op = "generate_dynamic_scenes"
  /\ Len(ParsedOfCall) < args.num_scenes
  /\ Len(result.val) = args.num_scenes
  /\ result.val[args.num_scenes] = _create_fallback_scene(args.object_name, args.num_scenes)

\* The scene the recorded call of infer_scene or generate_simple_prompt
\* returned.
SceneOfCall == IF op = "infer_scene" THEN result.val ELSE result.val[2]

\* The recorded call is a cascade invocation: infer_scene, or
\* generate_simple_prompt left to find its scene with the service.
CascadeCall ==
  \/ op = "infer_scene"
  \/ /\ op = "generate_simple_prompt"
     /\ args.scene_type = None /\ args.use_llm /\ args.object_name # None

\* C21: a cascade invocation takes its result from the tier at which it
\* stopped, the tiers being tried in the order external, matched pool,
\* synthetic: a scene of the response when the response holds one, else a
\* scene of the matched pool when the matcher finds one, else a synthetic
\* scene.
C21_TierOfResult ==
  (CascadeCall /\ ~result.raised) =>
    IF ParsedOfCall # <<>> THEN SceneOfCall \in Range(ParsedOfCall)
    ELSE IF _find_matching_scenes(args.object_name) # <<>>
      THEN SceneOfCall \in Range(_find_matching_scenes(args.object_name))
    ELSE \E i \in 0..DefaultNumScenes :
           SceneOfCall = _create_fallback_scene(args.object_name, i)

\* C22: when the response parses to k scenes, generate_dynamic_scenes(object,
\* N) returns the first min(k, N) parsed scenes in order and then, at every
\* position p of k+1..N, the synthetic scene of the object and index p.
C22_ParsedThenSynthetic ==
  (op = "generate_dynamic_scenes" /\ args.svc.kind = "text") =>
    /\ ~result.raised
    /\ Len(result.val) = args.num_scenes
    /\ Bind(ParsedOfCall,
            LAMBDA parsed :
              \A p \in 1..args.num_scenes :
                result.val[p] = IF p <= Len(parsed) THEN parsed[p]
                                ELSE _create_fallback_scene(args.object_name, p))

\* A response of two scene lines answered with both of them and then
\* synthetic entries up to the requested count.
C22_Witness ==
  /\ op = "generate_dynamic_scenes"
  /\ args.svc.kind = "text"
  /\ Len(ParsedOfCall) = 2
  /\ args.num_scenes > 3
  /\ SubSeq(result.val, 1, 2) = ParsedOfCall
  /\ result.val[3] = _create_fallback_scene(args.object_name, 3)
  /\ result.val[args.num_scenes] = _create_fallback_scene(args.object_name, args.num_scenes)

\* C23: the substring tier accepts a key when the case-folded key is
\* contained in the case-folded name or the name in the key; it answers
\* exactly when the exact tier accepts no key and some key is accepted this
\* way, with the whole scene list of the first such key in pool order and
\* nothing of any other key's list.
C23_SubstringTier ==
  op = "_find_matching_scenes" =>
    LET name == args.object_name
        hits == {i \in 1..Len(OBJECT_SCENE_MAP) :
                   \/ Contains(Lower(OBJECT_SCENE_MAP[i].key), Lower(name))
                   \/ Contains(Lower(name), Lower(OBJECT_SCENE_MAP[i].key))}
    IN /\ result.tier = "substring" <=> (~InPool(Lower(name)) /\ hits # {})
       /\ result.tier = "substring" =>
            /\ result.val = OBJECT_SCENE_MAP[First(hits)].scenes
            /\ \A j \in hits \ {First(hits)} :
                 \A s \in Range(OBJECT_SCENE_MAP[j].scenes) :
                   s \in Range(result.val) => s \in Range(OBJECT_SCENE_MAP[First(hits)].scenes)

\* "bottle", contained in two keys: the answer is the list of the first of
\* them and differs from the list of the second.
C23_Witness ==
  /\ op = "_find_matching_scenes"
  /\ result.tier = "substring"
  /\ Cardinality(SubstringKeys(args.object_name)) = 2
  /\ \A i \in SubstringKeys(args.object_name) :
       Contains(Lower(args.object_name), OBJECT_SCENE_MAP[i].key)
  /\ result.val = OBJECT_SCENE_MAP[First(SubstringKeys(args.object_name))].scenes
  /\ \E j \in SubstringKeys(args.object_name) : OBJECT_SCENE_MAP[j].scenes # result.val

\* The case-folded words of a name, split on whitespace.
WordsOf(name) == SplitWords(Lower(name))

\* C24: the word-overlap tier splits the name and each key into their sets
\* of case-folded words; it answers exactly when the earlier tiers accept no
\* key and some key shares a word with the name, with the scene list of the
\* first such key in pool order.
C24_WordTier ==
  op = "_find_matching_scenes" =>
    LET name == args.object_name
        shared == {i \in 1..Len(OBJECT_SCENE_MAP) :
                     \E w \in WordsOf(name) : w \in WordsOf(OBJECT_SCENE_MAP[i].key)}
    IN /\ result.tier = "word" <=>
            (~InPool(Lower(name)) /\ SubstringKeys(name) = {} /\ shared # {})
       /\ result.tier = "word" => result.val = OBJECT_SCENE_MAP[First(shared)].scenes

\* "bottle cap", which shares the word "bottle" with two keys and is
\* contained in none: the answer is the list of the first of the two.
C24_Witness ==
  /\ op = "_find_matching_scenes"
  /\ result.tier = "word"
  /\ Cardinality(WordKeys(args.object_name)) = 2
  /\ Cardinality(WordsOf(args.object_name)) = 2
  /\ result.val = OBJECT_SCENE_MAP[First(WordKeys(args.object_name))].scenes
  /\ \E j \in WordKeys(args.object_name) : OBJECT_SCENE_MAP[j].scenes # result.val

\* The recorded call of generate_dynamic_scenes was answered with a single
\* line that starts with a digit and is not a number, and asked for a scene.
DigitLineCall ==
  /\ op = "generate_dynamic_scenes"
  /\ args.svc.kind = "text"
  /\ args.num_scenes >= 1
  /\ ~Contains(<<"\n">>, args.svc.text)
  /\ Strip(args.svc.text) # <<>>
  /\ Strip(args.svc.text)[1] \in DigitChars
  /\ ~IsDigit(Strip(args.svc.text))

\* The separators found in the first 5 characters of a line, by their place
\* in the order ". ", ") ", "- ", ": ".
SeparatorsIn(line) ==
  {k \in 1..4 : Contains(<< <<".", " ">>, <<")", " ">>, <<"-", " ">>, <<":", " ">> >>[k],
                         SubSeq(line, 1, IF Len(line) < 5 THEN Len(line) ELSE 5))}

\* C25: of a line that starts with a digit the parser keeps the text after
\* the first, in the order ". ", ") ", "- ", ": ", of the separators found in
\* the line's first 5 characters, and applies no second separator; a line
\* with none of them there is kept as it is.
C25_FirstSeparatorInOrder ==
  DigitLineCall =>
    LET line == Strip(args.svc.text)
        seps == << <<".", " ">>, <<")", " ">>, <<"-", " ">>, <<":", " ">> >>
    IN IF SeparatorsIn(line) = {} THEN result.val[1] = line
       ELSE LET rest == Strip(AfterFirst(line, seps[First(SeparatorsIn(line))]))
            IN rest # <<>> => result.val[1] = rest

\* "5) . top bin": both ") " and ". " lie in the first 5 characters; ". "
\* comes first in the order and "top bin" is kept.
C25_Witness ==
  /\ DigitLineCall
  /\ Cardinality(SeparatorsIn(Strip(args.svc.text))) = 2
  /\ First(SeparatorsIn(Strip(args.svc.text))) = 1
  /\ result.val[1] = <<"t","o","p"," ","b","i","n">>

\* A scene that begins with a bullet marker.
Bulleted(scene) == StartsWith(scene, <<"-">>) \/ StartsWith(scene, <<"*">>)

\* C26: the leading "-" or "*" of a response line is stripped, so no scene
\* generate_dynamic_scenes or generate_diverse_scenes returns begins with a
\* bullet marker (no response line of the model carries two markers).
C26_BulletsStripped ==
  (op \in {"generate_dynamic_scenes", "generate_diverse_scenes"} /\ ~result.raised) =>
    \A i \in 1..Len(result.val) : ~Bulleted(result.val[i])

\* s is what is left of line l when characters are removed at its front.
IsSuffix(s, l) == Len(s) <= Len(l) /\ SubSeq(l, Len(l) - Len(s) + 1, Len(l)) = s

\* The trimmed lines of a response that are not to be discarded: not empty,
\* not a number, not starting with "#"; in input order.
LinesToKeep(text) ==
  Bind(SplitLines(text),
       LAMBDA lines :
         SelectSeq([k \in 1..Len(lines) |-> Strip(lines[k])],
                   LAMBDA l : l # <<>> /\ ~IsDigit(l) /\ ~StartsWith(l, <<"#">>)))

\* C27: a response line that is empty after trimming, a number, or starts
\* with "#" yields no scene, and every other line yields exactly one scene,
\* what is left of it after its marker, unless nothing is left, in which
\* case it yields none.  For generate_dynamic_scenes the scenes of the
\* response are followed by synthetic ones; for generate_diverse_scenes they
\* are the result unless there are none.
C27_LinesDiscarded ==
  /\ (op = "generate_dynamic_scenes" /\ args.svc.kind = "text") =>
       Bind(LinesToKeep(args.svc.text),
            LAMBDA kept :
              \A p \in 1..args.num_scenes :
                IF p <= Len(kept)
                  THEN result.val[p] # <<>> /\ IsSuffix(result.val[p], kept[p])
                  ELSE result.val[p] = _create_fallback_scene(args.object_name, p))
  /\ (op = "generate_diverse_scenes" /\ args.svc.kind = "text"
        /\ result.val # GeneralWithObject(args.object_name)) =>
       Bind(LinesToKeep(args.svc.text),
            LAMBDA kept :
              /\ Len(result.val) <= Len(kept)
              /\ \A i \in 1..Len(result.val) :
                   /\ result.val[i] # <<>>
                   /\ \E j \in i..Len(kept) : IsSuffix(result.val[i], kept[j]))

\* C28: generate_llm_prompts returns exactly count records whenever it
\* returns, in the dynamic and in the predefined mode, with exact_objects
\* supplied or the count drawn, and whatever the per-item calls do.
C28_ExactlyCountRecords ==
  (op = "generate_llm_prompts" /\ ~result.raised) => Len(result.val) = args.count

\* C29: with a credential configured, generate_images builds exactly
\* args.count prompt records, each with a scene that is a string, and hands
\* them to the image-generation step without raising, for every combination
\* of use_llm and advanced_prompts and whatever the text service does.
C29_CliBuildsAllRecords ==
  (op = "generate_images" /\ args.api_key) =>
    /\ ~result.raised
    /\ Len(result.prompts) = args.count
    /\ \A i \in 1..Len(result.prompts) : result.prompts[i].scene # None

\* The recorded call of generate_simple_prompt was given a scene_type or
\* had use_llm cleared.
NoServiceCall ==
  op = "generate_simple_prompt" /\ (args.scene_type # None \/ ~args.use_llm)

\* C30: generate_simple_prompt does not use the text service when scene_type
\* is supplied or use_llm is false: the diversity check of the service's
\* scenes does not run, the result is one the call can give whatever the
\* service would have done, and the scene is the supplied scene_type or,
\* with none supplied, one of the first 10 DEFAULT_SCENES expanded with the
\* object name.  The prompt of every call is the enhanced template filled
\* with the object, the scene and the count returned.
C30_NoServiceWhenSceneKnown ==
  op = "generate_simple_prompt" =>
    LET object == result.val[1].object_name
    IN /\ ~result.raised
       /\ IF args.object_name = None THEN object \in Range(PoolKeys)
          ELSE object = args.object_name
       /\ result.val[1] = EnhancedPrompt(result.val[3], object, result.val[2])
       /\ NoServiceCall =>
            /\ ~result.guarded
            /\ IF args.scene_type # None THEN result.val[2] = args.scene_type
               ELSE \E i \in 1..10 :
                      /\ i <= Len(DEFAULT_SCENES)
                      /\ result.val[2] = Format(DEFAULT_SCENES[i], object)
            /\ \A svc \in BasicSvc :
                 result \in generate_simple_prompt(client, args.object_name, args.scene_type,
                                                   args.num_objects, args.use_llm,
                                                   args.use_dynamic_scenes, svc)

\* A call with use_llm cleared and no scene_type, made while the service
\* would have answered with usable scenes: the scene is a default one, not
\* one of the response.
C30_Witness ==
  /\ NoServiceCall
  /\ args.scene_type = None
  /\ args.object_name # None
  /\ args.svc = SvcText(GoodText)
  /\ result.val[2] \in Range(FormattedDefaults(args.object_name, DefaultSceneSlice))
  /\ result.val[2] \notin Range(ParsedOfCall)
  /\ result.val[1] = EnhancedPrompt(result.val[3], args.object_name, result.val[2])

====
